---- MODULE Spec2Model ----
(***************************************************************************)
(* VocalHost: the call session orchestrator (CallHandler), the action      *)
(* extractor (extract_booking_data), the instruction assembler             *)
(* (generate_prompt) and the booking store (booking.py).                   *)
(*                                                                         *)
(* Text is a sequence of atoms (strings that are never split further):     *)
(* the code fence, the word "json", whitespace, narration, and whole JSON  *)
(* documents.  Substring search, concatenation and strip work on atoms as  *)
(* the Python string methods work on characters.                           *)
(***************************************************************************)
EXTENDS Integers, Sequences, FiniteSets, TLC

\* ------------------------------------------------------------------ bounds

\* Longest text given to extract_booking_data in SpecExtract.
MaxLen == 6
\* Engine events one session receives.
MaxEvents == 3
\* Booking-store calls the sessions make in SpecStore.
MaxCalls == 3
\* Media frames the caller sends in one call.
MaxFrames == 2
\* Iterations of the loop of generate_time_slots that are followed.
MaxSlots == 4
MaxRequests == 2

\* ------------------------------------------------------------ the state

VARIABLES
    mainPc,             \* process(): "connect", "init", "recv", "send_update", "send_clear", "done"
    twilioPc,           \* receive_from_twilio task: "none", "running", "returned", "cancelled", "failed"
    openai_ws,          \* the engine connection: "none", "open", "closed", "broken"
    stream_sid,         \* self.stream_sid
    assistant_response, \* _one_ai_turn's text buffer
    audio_stopped,      \* _one_ai_turn's flag
    history,            \* the save_memory_entry calls made for this conversation, in order
    bookings,           \* the Booking table
    nextId,             \* the next primary key of Booking
    new_prompt,         \* the instructions computed at lines 83-88, until sent
    event,              \* the engine event received last
    nEvents,            \* engine events received
    nCalls,             \* booking-store calls made in SpecStore
    engineOut,          \* messages process() sent to the engine for the event received last
    callerOut,          \* frames sent to the caller for the event received last
    mutatorCalls,       \* booking-store calls issued for the event received last
    forwarded,          \* the payloads of the append events sent to the engine, in order
    response_active,    \* the engine is between a response's first audio delta and its response.done
    utterance,          \* the text fragments the engine sent since the last response.done
    ex_pc, ex_in, ex_out, \* extract_booking_data applied to one text
    now,                \* the server clock
    pr_pc,              \* generate_prompt applied as a function: "idle", "input", "done"
    pr_assistant,       \* its assistant
    pr_rag,             \* its rag_chunks
    pr_out,             \* what its calls returned, each with the store and clock it read
    gs_pc,              \* generate_time_slots run step by step: "idle", "call", "loop", "done"
    gs_args,            \* its arguments
    gs_current,         \* its local current, in minutes after midnight
    gs_slots,           \* its local slots
    users,              \* the rows of the users table, by id
    assistants,         \* the rows of the assistants table, in order of their ids
    reg,                \* the register requests: how many began, and per user how
                        \* many passed the plan check and have not committed yet
    hook,               \* the status code of the last webhook response (0: none yet)
    agent               \* a BusinessVoiceTestAgent: the position of process(), the engine
                        \* connection, the audio task, finished, stream_sid, and the engine
                        \* events read, caller frames forwarded and frames sent to the frontend

vars == <<mainPc, twilioPc, openai_ws, stream_sid, assistant_response, audio_stopped,
          history, bookings, nextId, new_prompt, event, nEvents, nCalls,
          engineOut, callerOut, mutatorCalls, forwarded, response_active, utterance,
          ex_pc, ex_in, ex_out, now, pr_pc, pr_assistant, pr_rag, pr_out,
          gs_pc, gs_args, gs_current, gs_slots, users, assistants, reg, hook, agent>>

sessionVars == <<mainPc, twilioPc, openai_ws, stream_sid, assistant_response, audio_stopped,
                 history, bookings, nextId, new_prompt, event, nEvents, nCalls,
                 engineOut, callerOut, mutatorCalls, forwarded, response_active, utterance>>

exVars == <<ex_pc, ex_in, ex_out>>

prVars == <<now, pr_pc, pr_assistant, pr_rag, pr_out>>
gsVars == <<gs_pc, gs_args, gs_current, gs_slots>>
\* The state of the functions and routes that run outside a call session.
accountVars == <<users, assistants, reg, hook>>

serviceVars == <<gsVars, accountVars, agent>>

\* ------------------------------------------------------------- text atoms

\* The fence of three backquotes (a backquote cannot be written in a TLA+ string).
FENCE == "'''"
JSONWORD == "json"
SP == " "
NL == "\n"
Whitespace == {SP, NL}

\* JSON documents the engine may put between the fences.
JBook == "{\"booking_confirmed\":{\"time\":\"14:00\",\"date\":\"2025-03-10\",\"name\":\"Alex\",\"details\":\"checkup\"}}"
JCancel == "{\"cancellation_confirmed\":{\"time\":\"2:00 PM\"}}"
JResched == "{\"reschedule_confirmed\":{\"old_time\":\"14:00\",\"new_time\":\"15:00\",\"name\":\"Alex\"}}"
\* A booking whose time is in neither accepted encoding, and one without a time.
JBadTime == "{\"booking_confirmed\":{\"time\":\"2pm\",\"name\":\"Alex\"}}"
JNoTime == "{\"booking_confirmed\":{\"name\":\"Alex\"}}"

\* A booking for tomorrow, and one that gives only a time.
JBookTomorrow == "{\"booking_confirmed\":{\"time\":\"14:00\",\"date\":\"2025-03-11\",\"name\":\"Sam\"}}"
JBookBare == "{\"booking_confirmed\":{\"time\":\"3:00 PM\"}}"
\* A cancellation and a reschedule that carry a date.
JCancelDated == "{\"cancellation_confirmed\":{\"time\":\"14:00\",\"date\":\"2025-03-11\"}}"
JReschedDated == "{\"reschedule_confirmed\":{\"old_time\":\"2:00 PM\",\"new_time\":\"3:00 PM\",\"date\":\"2025-03-11\"}}"
\* A reschedule whose two times are in different encodings.
JReschedMixed == "{\"reschedule_confirmed\":{\"old_time\":\"2:00 PM\",\"new_time\":\"15:00\"}}"
\* Blocks with two recognized keys, and with none.
JBookAndCancel == "{\"cancellation_confirmed\":{\"time\":\"14:00\"},\"booking_confirmed\":{\"time\":\"15:00\",\"name\":\"Alex\"}}"
JCancelAndResched == "{\"reschedule_confirmed\":{\"old_time\":\"14:00\",\"new_time\":\"15:00\"},\"cancellation_confirmed\":{\"time\":\"14:00\"}}"
JOtherKey == "{\"note\":\"call back\"}"

\* JSON documents an assistant's available_days column may hold.
JMonday == "{\"monday\": true, \"tuesday\": false}"
JTuesday == "{\"tuesday\": true}"

\* Python's None.
None == [None |-> TRUE]

\* json.loads on one atom: the parsed value, or JSONDecodeError.
JSONDecodeError == [JSONDecodeError |-> TRUE]

json_loads(raw) ==
    IF Len(raw) # 1 THEN JSONDecodeError
    ELSE CASE raw[1] = JBook ->
                [booking_confirmed |->
                    [time |-> "14:00", date |-> "2025-03-10", name |-> "Alex", details |-> "checkup"]]
           [] raw[1] = JCancel ->
                [cancellation_confirmed |-> [time |-> "2:00 PM"]]
           [] raw[1] = JResched ->
                [reschedule_confirmed |->
                    [old_time |-> "14:00", new_time |-> "15:00", name |-> "Alex"]]
           [] raw[1] = JBadTime -> [booking_confirmed |-> [time |-> "2pm", name |-> "Alex"]]
           [] raw[1] = JNoTime -> [booking_confirmed |-> [name |-> "Alex"]]
           [] raw[1] = JBookTomorrow ->
                [booking_confirmed |-> [time |-> "14:00", date |-> "2025-03-11", name |-> "Sam"]]
           [] raw[1] = JBookBare -> [booking_confirmed |-> [time |-> "3:00 PM"]]
           [] raw[1] = JCancelDated ->
                [cancellation_confirmed |-> [time |-> "14:00", date |-> "2025-03-11"]]
           [] raw[1] = JReschedDated ->
                [reschedule_confirmed |->
                    [old_time |-> "2:00 PM", new_time |-> "3:00 PM", date |-> "2025-03-11"]]
           [] raw[1] = JReschedMixed ->
                [reschedule_confirmed |-> [old_time |-> "2:00 PM", new_time |-> "15:00"]]
           [] raw[1] = JBookAndCancel ->
                [cancellation_confirmed |-> [time |-> "14:00"],
                 booking_confirmed |-> [time |-> "15:00", name |-> "Alex"]]
           [] raw[1] = JCancelAndResched ->
                [reschedule_confirmed |-> [old_time |-> "14:00", new_time |-> "15:00"],
                 cancellation_confirmed |-> [time |-> "14:00"]]
           [] raw[1] = JOtherKey -> [note |-> "call back"]
           [] raw[1] = JMonday -> [d \in {"monday", "tuesday"} |-> d = "monday"]
           [] raw[1] = JTuesday -> [d \in {"tuesday"} |-> TRUE]
           [] OTHER -> JSONDecodeError

\* ------------------------------------------------------ string operations

\* s[from:] and s[:to] on 1-based positions.
Slice(s, from, to) == IF from > to THEN <<>> ELSE SubSeq(s, from, to)

StartsAt(s, pat, i) ==
    /\ i >= 1
    /\ i + Len(pat) - 1 <= Len(s)
    /\ \A k \in 1..Len(pat) : s[i + k - 1] = pat[k]

\* str.find(pat, from): the least position >= from where pat starts, 0 if none
\* (Python's -1).
find(s, pat, from) ==
    LET hits == {i \in from..Len(s) : StartsAt(s, pat, i)}
    IN  IF hits = {} THEN 0 ELSE CHOOSE i \in hits : \A j \in hits : i <= j

\* pat in s
Contains(s, pat) == find(s, pat, 1) # 0

\* str.strip(): leading and trailing whitespace removed.
strip(s) ==
    LET keep == {i \in 1..Len(s) : s[i] \notin Whitespace}
    IN  IF keep = {} THEN <<>>
        ELSE LET lo == CHOOSE i \in keep : \A j \in keep : i <= j
                 hi == CHOOSE i \in keep : \A j \in keep : i >= j
             IN  SubSeq(s, lo, hi)

\* --------------------------------------------------- extract_booking_data

start_tag == <<FENCE, JSONWORD>>
end_tag == <<FENCE>>

\* The block is cut at the opening marker only: the closing fence stays in
\* the cleaned text.
extract_keeps_end_tag(response) ==
    LET start_idx == find(response, start_tag, 1)
        end_idx == IF start_idx = 0 THEN 0
                   ELSE find(response, end_tag, start_idx + Len(start_tag))
        raw_json == strip(Slice(response, start_idx + Len(start_tag), end_idx - 1))
    IN  IF start_idx # 0 /\ end_idx # 0 /\ json_loads(raw_json) # JSONDecodeError
        THEN [clean |-> strip(Slice(response, 1, start_idx - 1)
                              \o Slice(response, end_idx, Len(response))),
              data |-> json_loads(raw_json)]
        ELSE [clean |-> response, data |-> None]

\* The block is cut out whether or not its content parses.
extract_cuts_unparsed(response) ==
    LET start_idx == find(response, start_tag, 1)
        end_idx == IF start_idx = 0 THEN 0
                   ELSE find(response, end_tag, start_idx + Len(start_tag))
        raw_json == strip(Slice(response, start_idx + Len(start_tag), end_idx - 1))
    IN  IF start_idx # 0 /\ end_idx # 0
        THEN [clean |-> strip(Slice(response, 1, start_idx - 1)
                              \o Slice(response, end_idx + Len(end_tag), Len(response))),
              data |-> IF json_loads(raw_json) # JSONDecodeError THEN json_loads(raw_json) ELSE None]
        ELSE [clean |-> response, data |-> None]

extract_booking_data(response) ==
    LET start_idx == find(response, start_tag, 1)
        end_idx == IF start_idx = 0 THEN 0
                   ELSE find(response, end_tag, start_idx + Len(start_tag))
        raw_json == strip(Slice(response, start_idx + Len(start_tag), end_idx - 1))
    IN  IF start_idx # 0 /\ end_idx # 0 /\ json_loads(raw_json) # JSONDecodeError
        THEN [clean |-> strip(Slice(response, 1, start_idx - 1)
                              \o Slice(response, end_idx + Len(end_tag), Len(response))),
              data |-> json_loads(raw_json)]
        ELSE [clean |-> response, data |-> None]

\* ------------------------------------------------------ dates and times

\* The date of the call, a Monday.
Today == "2025-03-10"

\* A failed strptime.
ValueError == -1

\* datetime.strptime(s, "%I:%M %p").time(), as minutes after midnight.
strptime_12h(s) ==
    CASE s = "2:00 PM" -> 14 * 60
      [] s = "3:00 PM" -> 15 * 60
      [] OTHER -> ValueError

\* datetime.strptime(s, "%H:%M").time(), as minutes after midnight.
strptime_24h(s) ==
    CASE s = "14:00" -> 14 * 60
      [] s = "15:00" -> 15 * 60
      [] OTHER -> ValueError

\* datetime.strptime(s, "%Y-%m-%d").date()
strptime_date(s) ==
    CASE s = "2025-03-10" -> "2025-03-10"
      [] s = "2025-03-11" -> "2025-03-11"
      [] OTHER -> "ValueError"

\* try "%I:%M %p", except ValueError "%H:%M"
parse_time(raw) ==
    IF strptime_12h(raw) # ValueError THEN strptime_12h(raw) ELSE strptime_24h(raw)

\* dict.get(key, default)
Get(d, key, default) == IF key \in DOMAIN d THEN d[key] ELSE default

\* ------------------------------------------------------------ booking store

\* The assistants and conversations the store holds bookings for; this
\* session is (ThisAssistant, ThisConversation).
ThisAssistant == "assistant-1"
ThisConversation == "conversation-1"
PeerConversation == "conversation-2"

Row(id, assistant_id, conversation_id, date, time, customer_name, details) ==
    [id |-> id, assistant_id |-> assistant_id, conversation_id |-> conversation_id,
     date |-> date, time |-> time, customer_name |-> customer_name, details |-> details]

\* Booking.query.filter_by(assistant_id=, date=, time=)
filter_by(store, assistant_id, date, time) ==
    {r \in store : r.assistant_id = assistant_id /\ r.date = date /\ r.time = time}

\* The stores handle_booking can leave behind: the new row is always added.
handle_booking(store, id, assistant_id, conversation_id, date, time, customer_name, details) ==
    {store \cup {Row(id, assistant_id, conversation_id, date, time, customer_name, details)}}

\* Every matching row is deleted.
cancel_booking_all(store, assistant_id, date, time) ==
    {store \ filter_by(store, assistant_id, date, time)}

\* The stores cancel_booking can leave behind: .first() takes any matching
\* row (the query has no ORDER BY); no match leaves the store as it is.
cancel_booking(store, assistant_id, date, time) ==
    LET found == filter_by(store, assistant_id, date, time)
    IN  IF found = {} THEN {store} ELSE {store \ {r} : r \in found}

\* What cancel_booking can return: None, or the row it deleted.
cancel_booking_returns(store, assistant_id, date, time) ==
    LET found == filter_by(store, assistant_id, date, time)
    IN  IF found = {} THEN {None} ELSE found

\* The booking is copied to the new slot and stays at the old one.
reschedule_booking_copies(store, assistant_id, old_date, old_time, new_date, new_time) ==
    LET found == filter_by(store, assistant_id, old_date, old_time)
    IN  IF found = {} THEN {store}
        ELSE {store \cup {[r EXCEPT !.date = new_date, !.time = new_time, !.id = 0 - r.id]} : r \in found}

\* The stores reschedule_booking can leave behind.
reschedule_booking(store, assistant_id, old_date, old_time, new_date, new_time) ==
    LET found == filter_by(store, assistant_id, old_date, old_time)
    IN  IF found = {} THEN {store}
        ELSE {(store \ {r}) \cup {[r EXCEPT !.date = new_date, !.time = new_time]} : r \in found}

\* What reschedule_booking can return: None, or the row it changed.
reschedule_booking_returns(store, assistant_id, old_date, old_time, new_date, new_time) ==
    LET found == filter_by(store, assistant_id, old_date, old_time)
    IN  IF found = {} THEN {None}
        ELSE {[r EXCEPT !.date = new_date, !.time = new_time] : r \in found}

\* A mutator call as the session issues it.
NoTime == 0 - 2
Call(op, date, time, new_time, name, details) ==
    [op |-> op, date |-> date, time |-> time, new_time |-> new_time,
     name |-> name, details |-> details]

\* The stores a call can leave behind, for the session's assistant.
apply_call(store, id, assistant_id, conversation_id, c) ==
    CASE c.op = "handle_booking" ->
            handle_booking(store, id, assistant_id, conversation_id, c.date, c.time, c.name, c.details)
      [] c.op = "cancel_booking" ->
            cancel_booking(store, assistant_id, c.date, c.time)
      [] c.op = "reschedule_booking" ->
            reschedule_booking(store, assistant_id, c.date, c.time, c.date, c.new_time)

\* ----------------------------------- _one_ai_turn: the structured action

\* What lines 113-169 do with the extracted data: the mutator call they
\* issue, or the exception they end with (KeyError is caught at line 171,
\* ValueError leaves _one_ai_turn).
Outcome(exc, calls) == [exc |-> exc, calls |-> calls]

\* Every recognized key of the block is applied, in priority order.
booking_action_every_key(booking_data) ==
    IF booking_data = None \/ DOMAIN booking_data = {} THEN Outcome("none", <<>>)
    ELSE LET b == Get(booking_data, "booking_confirmed", [time |-> ""])
             c == Get(booking_data, "cancellation_confirmed", [time |-> ""])
             r == Get(booking_data, "reschedule_confirmed", [old_time |-> "", new_time |-> ""])
             booking ==
                 IF parse_time(b["time"]) = ValueError THEN <<>>
                 ELSE <<Call("handle_booking", now.date, parse_time(b["time"]), NoTime,
                             Get(b, "name", "Unknown"), Get(b, "details", ""))>>
             cancellation ==
                 IF parse_time(c["time"]) = ValueError THEN <<>>
                 ELSE <<Call("cancel_booking", now.date, parse_time(c["time"]), NoTime, "", "")>>
             reschedule ==
                 IF strptime_24h(r["old_time"]) = ValueError \/ strptime_24h(r["new_time"]) = ValueError
                 THEN <<>>
                 ELSE <<Call("reschedule_booking", now.date, strptime_24h(r["old_time"]),
                             strptime_24h(r["new_time"]), "", "")>>
         IN  Outcome("none", booking \o cancellation \o reschedule)

\* A cancellation is applied to the date its block carries.
booking_action_block_date(booking_data) ==
    IF booking_data = None \/ DOMAIN booking_data = {} THEN Outcome("none", <<>>)
    ELSE IF "booking_confirmed" \in DOMAIN booking_data THEN
        LET b == booking_data["booking_confirmed"]
            date_obj == IF Get(b, "date", "") # "" THEN strptime_date(b["date"]) ELSE now.date
        IN  IF date_obj = "ValueError" THEN Outcome("ValueError", <<>>)
            ELSE IF "time" \notin DOMAIN b THEN Outcome("KeyError", <<>>)
            ELSE IF parse_time(b["time"]) = ValueError THEN Outcome("ValueError", <<>>)
            ELSE Outcome("none", <<Call("handle_booking", date_obj, parse_time(b["time"]), NoTime,
                                        Get(b, "name", "Unknown"), Get(b, "details", ""))>>)
    ELSE IF "cancellation_confirmed" \in DOMAIN booking_data THEN
        LET c == booking_data["cancellation_confirmed"]
        IN  IF "time" \notin DOMAIN c THEN Outcome("KeyError", <<>>)
            ELSE IF parse_time(c["time"]) = ValueError THEN Outcome("ValueError", <<>>)
            ELSE Outcome("none", <<Call("cancel_booking",
                                        IF Get(c, "date", "") # "" THEN strptime_date(c["date"]) ELSE now.date,
                                        parse_time(c["time"]), NoTime, "", "")>>)
    ELSE IF "reschedule_confirmed" \in DOMAIN booking_data THEN
        LET r == booking_data["reschedule_confirmed"]
        IN  IF "old_time" \notin DOMAIN r \/ "new_time" \notin DOMAIN r THEN Outcome("KeyError", <<>>)
            ELSE IF strptime_12h(r["old_time"]) # ValueError /\ strptime_12h(r["new_time"]) # ValueError
                 THEN Outcome("none", <<Call("reschedule_booking", now.date, strptime_12h(r["old_time"]),
                                             strptime_12h(r["new_time"]), "", "")>>)
            ELSE IF strptime_24h(r["old_time"]) # ValueError /\ strptime_24h(r["new_time"]) # ValueError
                 THEN Outcome("none", <<Call("reschedule_booking", now.date, strptime_24h(r["old_time"]),
                                             strptime_24h(r["new_time"]), "", "")>>)
            ELSE Outcome("ValueError", <<>>)
    ELSE Outcome("none", <<>>)

booking_action(booking_data) ==
    IF booking_data = None \/ DOMAIN booking_data = {} THEN Outcome("none", <<>>)
    ELSE IF "booking_confirmed" \in DOMAIN booking_data THEN
        LET b == booking_data["booking_confirmed"]
            date_obj == IF Get(b, "date", "") # "" THEN strptime_date(b["date"]) ELSE now.date
        IN  IF date_obj = "ValueError" THEN Outcome("ValueError", <<>>)
            ELSE IF "time" \notin DOMAIN b THEN Outcome("KeyError", <<>>)
            ELSE IF parse_time(b["time"]) = ValueError THEN Outcome("ValueError", <<>>)
            ELSE Outcome("none", <<Call("handle_booking", date_obj, parse_time(b["time"]), NoTime,
                                        Get(b, "name", "Unknown"), Get(b, "details", ""))>>)
    ELSE IF "cancellation_confirmed" \in DOMAIN booking_data THEN
        LET c == booking_data["cancellation_confirmed"]
        IN  IF "time" \notin DOMAIN c THEN Outcome("KeyError", <<>>)
            ELSE IF parse_time(c["time"]) = ValueError THEN Outcome("ValueError", <<>>)
            ELSE Outcome("none", <<Call("cancel_booking", now.date, parse_time(c["time"]), NoTime, "", "")>>)
    ELSE IF "reschedule_confirmed" \in DOMAIN booking_data THEN
        LET r == booking_data["reschedule_confirmed"]
        IN  IF "old_time" \notin DOMAIN r \/ "new_time" \notin DOMAIN r THEN Outcome("KeyError", <<>>)
            ELSE IF strptime_12h(r["old_time"]) # ValueError /\ strptime_12h(r["new_time"]) # ValueError
                 THEN Outcome("none", <<Call("reschedule_booking", now.date, strptime_12h(r["old_time"]),
                                             strptime_12h(r["new_time"]), "", "")>>)
            ELSE IF strptime_24h(r["old_time"]) # ValueError /\ strptime_24h(r["new_time"]) # ValueError
                 THEN Outcome("none", <<Call("reschedule_booking", now.date, strptime_24h(r["old_time"]),
                                             strptime_24h(r["new_time"]), "", "")>>)
            ELSE Outcome("ValueError", <<>>)
    ELSE Outcome("none", <<>>)

\* ------------------------------------------------------------ the clock

\* datetime.now(): the date and the minutes after midnight the server reads.
Clock(date, time) == [date |-> date, time |-> time]

\* date.strftime("%A").lower()
weekday(date) ==
    CASE date = "2025-03-09" -> "sunday"
      [] date = "2025-03-10" -> "monday"
      [] date = "2025-03-11" -> "tuesday"

\* date1 >= date2 on the dates of the model.
date_ge(date1, date2) ==
    LET day(d) == CASE d = "2025-03-09" -> 9 [] d = "2025-03-10" -> 10 [] d = "2025-03-11" -> 11
    IN  day(date1) >= day(date2)

Digit(n) == <<"0", "1", "2", "3", "4", "5", "6", "7", "8", "9">>[n + 1]

\* time.strftime("%I:%M %p") of a time given in minutes after midnight: one
\* atom per digit, the hour zero-padded to two digits.
strftime_I_M_p(t) ==
    LET h == t \div 60
        m == t % 60
        h12 == IF h % 12 = 0 THEN 12 ELSE h % 12
    IN  <<Digit(h12 \div 10), Digit(h12 % 10), ":", Digit(m \div 10), Digit(m % 10), SP,
          IF h < 12 THEN "AM" ELSE "PM">>

\* str.lstrip(ch)
RECURSIVE lstrip(_, _)
lstrip(s, ch) == IF s # <<>> /\ s[1] = ch THEN lstrip(Tail(s), ch) ELSE s

\* The slot label: strftime("%I:%M %p").lstrip("0")
pretty(t) == lstrip(strftime_I_M_p(t), "0")

\* map(int, "HH:MM".split(":")) as minutes after midnight.
split_hm(s) ==
    CASE s = "09:00" -> 9 * 60
      [] s = "11:00" -> 11 * 60
      [] s = "17:00" -> 17 * 60

\* sep.join(parts)
RECURSIVE join(_, _)
join(parts, sep) ==
    IF parts = <<>> THEN <<>>
    ELSE IF Len(parts) = 1 THEN parts[1]
    ELSE parts[1] \o sep \o join(Tail(parts), sep)

\* ------------------------------------------------------ generate_time_slots

MonToFri ==
    [d \in {"monday", "tuesday", "wednesday", "thursday", "friday", "saturday", "sunday"}
        |-> d \notin {"saturday", "sunday"}]

\* Lines 126-129: the labels from current on, in steps of the duration,
\* while current is before the cutoff.
RECURSIVE slots_from(_, _, _)
slots_from(current, cutoff, duration_minutes) ==
    IF current < cutoff
    THEN <<pretty(current)>> \o slots_from(current + duration_minutes, cutoff, duration_minutes)
    ELSE <<>>

generate_time_slots(start_time_24, end_time_24, duration_minutes, available_days, for_date) ==
    LET days == IF available_days = None THEN MonToFri ELSE available_days
    IN  IF ~Get(days, weekday(for_date), FALSE) THEN <<>>
        ELSE slots_from(split_hm(start_time_24), split_hm(end_time_24), duration_minutes)

\* ------------------------------------------------- the booking store's reads

\* The labels load_booked_slots returns as the keys of its dict, without
\* stripping the hour's leading zero.
load_booked_slots_padded(assistant_id, date) ==
    {strftime_I_M_p(r.time) : r \in {x \in bookings : x.assistant_id = assistant_id /\ x.date = date}}

\* load_booked_slots: the keys of the dict, the labels of the times booked
\* for the assistant on the date.
load_booked_slots(assistant_id, date) ==
    {pretty(r.time) : r \in {x \in bookings : x.assistant_id = assistant_id /\ x.date = date}}

\* load_user_bookings: the caller's bookings from today on, as dicts.
load_user_bookings(assistant_id, conversation_id) ==
    {[date |-> r.date, time |-> pretty(r.time), name |-> r.customer_name, details |-> r.details] :
        r \in {x \in bookings : /\ x.assistant_id = assistant_id
                                /\ x.conversation_id = conversation_id
                                /\ date_ge(x.date, now.date)}}

\* ---------------------------------------------------------- generate_prompt

\* The assistants of the model: open Monday 09:00-17:00 with 30-minute
\* slots; open Tuesday 09:00-11:00 with 60-minute slots; without a schedule.
\* The session's assistant is AssistantOpen.
AssistantOpen ==
    [id |-> ThisAssistant, start_time |-> "09:00", end_time |-> "17:00",
     booking_duration_minutes |-> 30, available_days |-> <<JMonday>>]
AssistantTuesday ==
    [id |-> ThisAssistant, start_time |-> "09:00", end_time |-> "11:00",
     booking_duration_minutes |-> 60, available_days |-> <<JTuesday>>]
AssistantNoSchedule ==
    [id |-> ThisAssistant, start_time |-> "09:00", end_time |-> "17:00",
     booking_duration_minutes |-> 30, available_days |-> <<>>]

\* Lines 36-45: the slots of today.
all_slots(assistant) ==
    generate_time_slots(assistant.start_time, assistant.end_time,
                        assistant.booking_duration_minutes,
                        json_loads(assistant.available_days), now.date)

\* Lines 49-51.
booked_slots(assistant) ==
    LET booked_rows == load_booked_slots(assistant.id, now.date)
    IN  SelectSeq(all_slots(assistant), LAMBDA slot : slot \in booked_rows)

available_slots(assistant) ==
    LET booked_rows == load_booked_slots(assistant.id, now.date)
    IN  SelectSeq(all_slots(assistant), LAMBDA slot : slot \notin booked_rows)

\* An empty list is rendered as the empty string.
slot_list_or_empty(slots) == join(slots, <<",", SP>>)

\* Lines 94-95: ', '.join(slots) if slots else 'None'
slot_list(slots) == IF slots # <<>> THEN join(slots, <<",", SP>>) ELSE <<"None">>

Unknown == <<"Unknown">>

\* The prompt with a call counter embedded in it.
generate_prompt_numbered(history_json, assistant, rag_chunks, user_bookings) ==
    [current_date |-> now.date, current_time |-> <<"call", Digit(Len(pr_out))>>,
     start_12 |-> Unknown, end_12 |-> Unknown,
     booking_duration_minutes |-> assistant.booking_duration_minutes,
     available |-> slot_list(<<>>), booked |-> slot_list(<<>>),
     history |-> history_json,
     bookings_section |-> [text |-> "", rows |-> user_bookings],
     rag_section |-> rag_chunks]

\* Without a schedule the store is still asked for today's bookings.
generate_prompt_reads_store(history_json, assistant, rag_chunks, user_bookings) ==
    IF assistant.available_days = <<>>
    THEN [current_date |-> "Unknown", current_time |-> Unknown,
          start_12 |-> Unknown, end_12 |-> Unknown,
          booking_duration_minutes |-> assistant.booking_duration_minutes,
          available |-> slot_list(<<>>),
          booked |-> slot_list(IF load_booked_slots(assistant.id, now.date) = {}
                               THEN <<>> ELSE <<<<"booked">>>>),
          history |-> history_json,
          bookings_section |-> [text |-> "Unknown", rows |-> {}],
          rag_section |-> rag_chunks]
    ELSE [current_date |-> now.date, current_time |-> pretty(now.time),
          start_12 |-> pretty(split_hm(assistant.start_time)),
          end_12 |-> pretty(split_hm(assistant.end_time)),
          booking_duration_minutes |-> assistant.booking_duration_minutes,
          available |-> slot_list(available_slots(assistant)),
          booked |-> slot_list(booked_slots(assistant)),
          history |-> history_json,
          bookings_section |-> [text |-> IF user_bookings = {} THEN "" ELSE "table",
                                rows |-> user_bookings],
          rag_section |-> rag_chunks]

\* The parts of the instruction text that depend on the call.  The text is
\* given by its interpolated values: the date and time, the business hours,
\* the duration, the rendered slot lists, the history, the caller's
\* bookings and the document snippets.  An absent rag_chunks (None) is the
\* empty list.
generate_prompt(history_json, assistant, rag_chunks, user_bookings) ==
    IF assistant.available_days = <<>>
    THEN [current_date |-> "Unknown", current_time |-> Unknown,
          start_12 |-> Unknown, end_12 |-> Unknown,
          booking_duration_minutes |-> assistant.booking_duration_minutes,
          available |-> slot_list(<<>>), booked |-> slot_list(<<>>),
          history |-> history_json,
          bookings_section |-> [text |-> "Unknown", rows |-> {}],
          rag_section |-> rag_chunks]
    ELSE [current_date |-> now.date, current_time |-> pretty(now.time),
          start_12 |-> pretty(split_hm(assistant.start_time)),
          end_12 |-> pretty(split_hm(assistant.end_time)),
          booking_duration_minutes |-> assistant.booking_duration_minutes,
          available |-> slot_list(available_slots(assistant)),
          booked |-> slot_list(booked_slots(assistant)),
          history |-> history_json,
          bookings_section |-> [text |-> IF user_bookings = {} THEN "" ELSE "table",
                                rows |-> user_bookings],
          rag_section |-> rag_chunks]

\* ------------------------------------------------- the conversation memory

\* save_memory_entry(conversation_id, role, text): one entry is added at the
\* end of the conversation's memory.
Entry(role, text) == [role |-> role, text |-> text]
save_memory_entry(memory, role, text) == Append(memory, Entry(role, text))

\* load_memory(conversation_id): the entries saved so far, in order.
load_memory(memory) == memory

\* get_context_chunks: the snippets found, none when there is no collection
\* or the search fails.
RagResults == {<<>>, <<"Open on Mondays.">>}

\* ------------------------------------------------------- the session's data

Ev(type, arg) == [type |-> type, arg |-> arg]
NoPrompt == [history |-> <<>>]

\* Outbound messages and frames.
SessionUpdate(instructions) == [type |-> "session.update", instructions |-> instructions]
Truncate == [type |-> "conversation.item.truncate"]
AudioAppend(payload) == [type |-> "input_audio_buffer.append", audio |-> payload]
ItemCreate == [type |-> "conversation.item.create"]
ResponseCreate == [type |-> "response.create"]
MediaFrame(sid, payload) == [event |-> "media", streamSid |-> sid, payload |-> payload]
ClearFrame(sid) == [event |-> "clear", streamSid |-> sid]

Greeting == <<"Hello there!">>

\* The texts of the model.
UserSaid == <<"I would like 2 PM">>
Narration == <<"See you then!">>
Block(json) == <<NL, FENCE, JSONWORD, NL, json, NL, FENCE>>
Utterances == {Narration, Narration \o Block(JBook), Narration \o Block(JCancel),
               Narration \o Block(JResched)}

\* Utterances whose block does not make an action.
MalformedUtterances == {Narration \o Block(JBadTime), Narration \o Block(JNoTime)}

\* Text fragments of a streamed response: the opening of a booking block
\* reaches the buffer whole or split, with or without a brace in the
\* fragment that completes it.
Deltas == {<<"Sure.">>, <<"{", "\"booking_">>, <<"confirmed\"">>, <<"{", "\"booking_", "confirmed\"">>, <<"}">>,
           <<"{", "\"cancellation_confirmed\"">>}

\* "{" in delta or "}" in delta
has_brace(delta) ==
    \E i \in 1..Len(delta) : delta[i] \in {"{", "}", JBook, JCancel, JResched, JBadTime, JNoTime}

\* "booking_confirmed" in assistant_response (the first test of line 197
\* implies this one)
has_booking_marker(text) ==
    \/ Contains(text, <<"\"booking_", "confirmed\"">>)
    \/ \E i \in 1..Len(text) : text[i] \in {JBook, JBadTime, JNoTime}

T_TRANSCRIPT == "conversation.item.input_audio_transcription.completed"
T_DONE == "response.done"
T_AUDIO == "response.audio.delta"
T_TEXT == "response.content.delta"
T_SPEECH_FINAL == "input_audio_buffer.speech_final"
T_SPEECH_STARTED == "input_audio_buffer.speech_started"
T_READY == "session.ready"
T_OTHER == "response.created"

\* What an event no test matches may carry: no 'response' key, or a
\* 'response' key that holds null.
NoResponseKey == <<>>
ResponseNull == <<"\"response\": null">>

\* The events of the turn cycle: caller transcripts, completed utterances
\* of every kind, response audio, and a text fragment that opens a block.
TurnEvents ==
    {Ev(T_TRANSCRIPT, UserSaid), Ev(T_TRANSCRIPT, <<>>)}
    \cup {Ev(T_DONE, u) : u \in Utterances}
    \cup {Ev(T_AUDIO, <<"ulaw">>)}
    \cup {Ev(T_TEXT, <<"{", "\"booking_", "confirmed\"">>)}

\* The events of the audio path: response audio, every text fragment, the
\* end of a response, and the interruption.
StreamEvents ==
    {Ev(T_AUDIO, <<"ulaw">>), Ev(T_DONE, Narration), Ev(T_SPEECH_STARTED, <<>>),
     Ev(T_SPEECH_FINAL, UserSaid), Ev(T_READY, <<>>)}
    \cup {Ev(T_TEXT, d) : d \in Deltas}

\* ------------------------------------------------------------ process()

SessionInit ==
    /\ mainPc = "connect"
    /\ twilioPc = "none"
    /\ openai_ws = "none"
    /\ stream_sid = "None"
    /\ assistant_response = <<>>
    /\ audio_stopped = FALSE
    /\ history = <<>>
    /\ nextId = 1
    /\ new_prompt = NoPrompt
    /\ event = Ev("none", <<>>)
    /\ nEvents = 0
    /\ nCalls = 0
    /\ engineOut = <<>>
    /\ callerOut = <<>>
    /\ mutatorCalls = <<>>
    /\ forwarded = <<>>
    /\ response_active = FALSE
    /\ utterance = <<>>

\* What a step of process() that handles no new event leaves alone.
SameEvent ==
    UNCHANGED <<event, nEvents, nCalls, forwarded, response_active, utterance, exVars, prVars,
                serviceVars>>

\* An exception leaves the try of process(): it is printed, and the finally
\* clause closes the engine connection.  The caller task is not cancelled.
Raise ==
    /\ mainPc' = "done"
    /\ openai_ws' = IF openai_ws = "none" THEN "none" ELSE "closed"

\* websockets.connect succeeds.
Connect ==
    /\ mainPc = "connect"
    /\ mainPc' = "init"
    /\ openai_ws' = "open"
    /\ UNCHANGED <<twilioPc, stream_sid, assistant_response, audio_stopped, history, bookings,
                   nextId, new_prompt, engineOut, callerOut, mutatorCalls>>
    /\ SameEvent

\* websockets.connect raises.
ConnectFails ==
    /\ mainPc = "connect"
    /\ Raise
    /\ UNCHANGED <<twilioPc, stream_sid, assistant_response, audio_stopped, history, bookings,
                   nextId, new_prompt, engineOut, callerOut, mutatorCalls>>
    /\ SameEvent

\* initialize_session and send_initial_greeting, then the caller task is
\* created and _one_ai_turn starts with an empty buffer.
initialize_session ==
    /\ mainPc = "init"
    /\ openai_ws = "open"
    /\ engineOut' = <<SessionUpdate(generate_prompt(load_memory(history), AssistantOpen, <<>>,
                          load_user_bookings(AssistantOpen.id, ThisConversation))),
                      ItemCreate, ResponseCreate>>
    /\ history' = save_memory_entry(history, "assistant", Greeting)
    /\ twilioPc' = "running"
    /\ assistant_response' = <<>>
    /\ audio_stopped' = FALSE
    /\ mainPc' = "recv"
    /\ UNCHANGED <<openai_ws, stream_sid, bookings, nextId, new_prompt, callerOut, mutatorCalls>>
    /\ SameEvent

\* A send on an engine connection that is no longer open raises.
SendRaises ==
    /\ mainPc \in {"init", "send_update"}
    /\ openai_ws \in {"closed", "broken"}
    /\ Raise
    /\ UNCHANGED <<twilioPc, stream_sid, assistant_response, audio_stopped, history, bookings,
                   nextId, new_prompt, engineOut, callerOut, mutatorCalls>>
    /\ SameEvent

\* -------------------------------------------------------- _one_ai_turn

\* The next message of the engine connection is read.
Receive(e) ==
    /\ mainPc = "recv"
    /\ openai_ws = "open"
    /\ nEvents < MaxEvents
    /\ event' = e
    /\ nEvents' = nEvents + 1
    /\ UNCHANGED <<twilioPc, stream_sid, nCalls, forwarded, exVars, prVars, serviceVars>>

\* The handler goes on to the next message without waiting for the send.
transcription_completed_no_await(e) ==
    /\ e.type = T_TRANSCRIPT
    /\ Receive(e)
    /\ IF e.arg # <<>>
       THEN /\ history' = save_memory_entry(history, "user", e.arg)
            /\ \E rag_chunks \in RagResults :
                  new_prompt' = generate_prompt(load_memory(history'), AssistantOpen, rag_chunks,
                                    load_user_bookings(AssistantOpen.id, ThisConversation))
       ELSE UNCHANGED <<history, new_prompt>>
    /\ engineOut' = <<>> /\ callerOut' = <<>> /\ mutatorCalls' = <<>>
    /\ UNCHANGED <<mainPc, openai_ws, assistant_response, audio_stopped, bookings, nextId,
                   response_active, utterance>>

\* The instructions are computed from the memory as it was before the
\* transcript was saved.
transcription_completed_prompt_before_save(e) ==
    /\ e.type = T_TRANSCRIPT
    /\ Receive(e)
    /\ IF e.arg # <<>>
       THEN /\ history' = save_memory_entry(history, "user", e.arg)
            /\ \E rag_chunks \in RagResults :
                  new_prompt' = generate_prompt(load_memory(history), AssistantOpen, rag_chunks,
                                    load_user_bookings(AssistantOpen.id, ThisConversation))
            /\ mainPc' = "send_update"
       ELSE UNCHANGED <<history, new_prompt, mainPc>>
    /\ engineOut' = <<>> /\ callerOut' = <<>> /\ mutatorCalls' = <<>>
    /\ UNCHANGED <<openai_ws, assistant_response, audio_stopped, bookings, nextId,
                   response_active, utterance>>

\* Lines 62-99, up to the await of the send.
on_transcription_completed(e) ==
    /\ e.type = T_TRANSCRIPT
    /\ Receive(e)
    /\ IF e.arg # <<>>
       THEN /\ history' = save_memory_entry(history, "user", e.arg)
            /\ \E rag_chunks \in RagResults :
                  new_prompt' = generate_prompt(load_memory(history'), AssistantOpen, rag_chunks,
                                    load_user_bookings(AssistantOpen.id, ThisConversation))
            /\ mainPc' = "send_update"
       ELSE UNCHANGED <<history, new_prompt, mainPc>>
    /\ engineOut' = <<>> /\ callerOut' = <<>> /\ mutatorCalls' = <<>>
    /\ UNCHANGED <<openai_ws, assistant_response, audio_stopped, bookings, nextId,
                   response_active, utterance>>

\* Lines 62-80 when the booking store cannot be reached: the transcript is
\* saved (line 65), the query of load_user_bookings raises at line 77, and
\* no handler between there and line 47 catches it.
on_transcription_store_unavailable(e) ==
    /\ e.type = T_TRANSCRIPT
    /\ e.arg # <<>>
    /\ Receive(e)
    /\ history' = save_memory_entry(history, "user", e.arg)
    /\ Raise
    /\ engineOut' = <<>> /\ callerOut' = <<>> /\ mutatorCalls' = <<>>
    /\ UNCHANGED <<assistant_response, audio_stopped, bookings, nextId, new_prompt,
                   response_active, utterance>>

\* Lines 92-99: the session.update is sent and the loop continues.
send_session_update ==
    /\ mainPc = "send_update"
    /\ openai_ws = "open"
    /\ engineOut' = Append(engineOut, SessionUpdate(new_prompt))
    /\ new_prompt' = NoPrompt
    /\ mainPc' = "recv"
    /\ UNCHANGED <<twilioPc, openai_ws, stream_sid, assistant_response, audio_stopped, history,
                   bookings, nextId, callerOut, mutatorCalls>>
    /\ SameEvent

\* The mutator is called once for the block and once more for the same block.
response_done_commits_twice(e) ==
    /\ e.type = T_DONE
    /\ Receive(e)
    /\ history' = save_memory_entry(history, "assistant", e.arg)
    /\ LET out == booking_action(extract_booking_data(e.arg).data)
       IN  /\ mutatorCalls' = out.calls \o out.calls
           /\ IF out.calls = <<>>
              THEN UNCHANGED <<bookings, nextId>>
              ELSE /\ \E once \in apply_call(bookings, nextId, ThisAssistant,
                                             ThisConversation, out.calls[1]) :
                         bookings' \in apply_call(once, nextId + 1, ThisAssistant,
                                                  ThisConversation, out.calls[1])
                   /\ nextId' = IF out.calls[1].op = "handle_booking" THEN nextId + 2 ELSE nextId
           /\ UNCHANGED <<mainPc, openai_ws>>
    /\ response_active' = FALSE
    /\ utterance' = <<>>
    /\ engineOut' = <<>> /\ callerOut' = <<>>
    /\ UNCHANGED <<assistant_response, audio_stopped, new_prompt>>

\* The assistant entry is written over the last entry of the memory.
response_done_rewrites_history(e) ==
    /\ e.type = T_DONE
    /\ Receive(e)
    /\ history' = [history EXCEPT ![Len(history)] = Entry("assistant", e.arg)]
    /\ mutatorCalls' = <<>>
    /\ response_active' = FALSE
    /\ utterance' = <<>>
    /\ engineOut' = <<>> /\ callerOut' = <<>>
    /\ UNCHANGED <<mainPc, openai_ws, bookings, nextId, assistant_response, audio_stopped,
                   new_prompt>>

\* Lines 101-172 on an event that carries response.output with one
\* transcript: the transcript is saved, the block extracted and the mutator
\* called.  Nothing after line 172 matches the event.
on_response_done(e) ==
    /\ e.type = T_DONE
    /\ Receive(e)
    /\ history' = save_memory_entry(history, "assistant", e.arg)
    /\ LET out == booking_action(extract_booking_data(e.arg).data)
       IN  IF out.exc = "ValueError"
           THEN /\ Raise
                /\ mutatorCalls' = <<>>
                /\ UNCHANGED <<bookings, nextId>>
           ELSE /\ mutatorCalls' = out.calls
                /\ IF out.calls = <<>>
                   THEN UNCHANGED <<bookings, nextId>>
                   ELSE /\ bookings' \in apply_call(bookings, nextId, ThisAssistant,
                                                    ThisConversation, out.calls[1])
                        /\ nextId' = IF out.calls[1].op = "handle_booking" THEN nextId + 1 ELSE nextId
                /\ UNCHANGED <<mainPc, openai_ws>>
    /\ response_active' = FALSE
    /\ utterance' = <<>>
    /\ engineOut' = <<>> /\ callerOut' = <<>>
    /\ UNCHANGED <<assistant_response, audio_stopped, new_prompt>>

\* The frame of a delta is sent to the caller twice.
audio_delta_sent_twice(e) ==
    /\ e.type = T_AUDIO
    /\ Receive(e)
    /\ callerOut' = IF e.arg # <<>> /\ ~audio_stopped
                    THEN <<MediaFrame(stream_sid, e.arg), MediaFrame(stream_sid, e.arg)>>
                    ELSE <<>>
    /\ response_active' = TRUE
    /\ engineOut' = <<>> /\ mutatorCalls' = <<>>
    /\ UNCHANGED <<mainPc, openai_ws, assistant_response, audio_stopped, history, bookings,
                   nextId, new_prompt, utterance>>

\* Lines 179-188.
on_audio_delta(e) ==
    /\ e.type = T_AUDIO
    /\ Receive(e)
    /\ callerOut' = IF e.arg # <<>> /\ ~audio_stopped
                    THEN <<MediaFrame(stream_sid, e.arg)>> ELSE <<>>
    /\ response_active' = TRUE
    /\ engineOut' = <<>> /\ mutatorCalls' = <<>>
    /\ UNCHANGED <<mainPc, openai_ws, assistant_response, audio_stopped, history, bookings,
                   nextId, new_prompt, utterance>>

\* Lines 190-203.
on_content_delta(e) ==
    /\ e.type = T_TEXT
    /\ Receive(e)
    /\ assistant_response' = assistant_response \o e.arg
    /\ utterance' = utterance \o e.arg
    /\ IF ~audio_stopped /\ has_brace(e.arg) /\ has_booking_marker(assistant_response')
       THEN /\ audio_stopped' = TRUE
            /\ callerOut' = <<ClearFrame(stream_sid)>>
       ELSE /\ audio_stopped' = audio_stopped
            /\ callerOut' = <<>>
    /\ engineOut' = <<>> /\ mutatorCalls' = <<>>
    /\ UNCHANGED <<mainPc, openai_ws, history, bookings, nextId, new_prompt, response_active>>

\* The clear is sent to the caller first; the truncate is still to be sent.
speech_started_clear_first(e) ==
    /\ e.type = T_SPEECH_STARTED
    /\ Receive(e)
    /\ callerOut' = <<ClearFrame(stream_sid)>>
    /\ engineOut' = <<>>
    /\ mutatorCalls' = <<>>
    /\ UNCHANGED <<mainPc, openai_ws, assistant_response, audio_stopped, history, bookings,
                   nextId, new_prompt, response_active, utterance>>

\* Lines 213-224: the truncate is sent; the clear is still to be sent.
on_speech_started(e) ==
    /\ e.type = T_SPEECH_STARTED
    /\ Receive(e)
    /\ engineOut' = <<Truncate>>
    /\ mainPc' = "send_clear"
    /\ callerOut' = <<>> /\ mutatorCalls' = <<>>
    /\ UNCHANGED <<openai_ws, assistant_response, audio_stopped, history, bookings, nextId,
                   new_prompt, response_active, utterance>>

\* Lines 226-229.
send_clear ==
    /\ mainPc = "send_clear"
    /\ callerOut' = Append(callerOut, ClearFrame(stream_sid))
    /\ mainPc' = "recv"
    /\ UNCHANGED <<twilioPc, openai_ws, stream_sid, assistant_response, audio_stopped, history,
                   bookings, nextId, new_prompt, engineOut, mutatorCalls>>
    /\ SameEvent

\* Lines 205-211: the final transcript of the caller's speech is saved.
on_speech_final(e) ==
    /\ e.type = T_SPEECH_FINAL
    /\ Receive(e)
    /\ history' = IF e.arg # <<>> THEN save_memory_entry(history, "user", e.arg) ELSE history
    /\ engineOut' = <<>> /\ callerOut' = <<>> /\ mutatorCalls' = <<>>
    /\ UNCHANGED <<mainPc, openai_ws, assistant_response, audio_stopped, bookings, nextId,
                   new_prompt, response_active, utterance>>

\* Line 102 on an event whose 'response' is null: the subscript raises
\* TypeError, which the except of line 171 does not catch.
on_event_shape_raises(e) ==
    /\ e.type = T_OTHER
    /\ e.arg = ResponseNull
    /\ Receive(e)
    /\ Raise
    /\ engineOut' = <<>> /\ callerOut' = <<>> /\ mutatorCalls' = <<>>
    /\ UNCHANGED <<assistant_response, audio_stopped, history, bookings, nextId, new_prompt,
                   response_active, utterance>>

\* Lines 175-177, and any event no test matches: line 102 raises KeyError,
\* which line 171 catches.
on_other_event(e) ==
    /\ e.type \in {T_READY, T_OTHER}
    /\ e.arg = NoResponseKey
    /\ Receive(e)
    /\ engineOut' = <<>> /\ callerOut' = <<>> /\ mutatorCalls' = <<>>
    /\ UNCHANGED <<mainPc, openai_ws, assistant_response, audio_stopped, history, bookings,
                   nextId, new_prompt, response_active, utterance>>

\* The connection is closed: the async for ends, _one_ai_turn returns True,
\* process() breaks, cancels the caller task and closes the connection.
loop_ends ==
    /\ mainPc = "recv"
    /\ openai_ws = "closed"
    /\ mainPc' = "done"
    /\ twilioPc' = IF twilioPc = "running" THEN "cancelled" ELSE twilioPc
    /\ UNCHANGED <<openai_ws, stream_sid, assistant_response, audio_stopped, history, bookings,
                   nextId, new_prompt, engineOut, callerOut, mutatorCalls>>
    /\ SameEvent

\* The connection broke: the async for raises.
loop_raises ==
    /\ mainPc = "recv"
    /\ openai_ws = "broken"
    /\ Raise
    /\ UNCHANGED <<twilioPc, stream_sid, assistant_response, audio_stopped, history, bookings,
                   nextId, new_prompt, engineOut, callerOut, mutatorCalls>>
    /\ SameEvent

\* ------------------------------------------------- receive_from_twilio

\* What a step of the caller task, of the engine or of another session
\* leaves alone.
MainIdle ==
    UNCHANGED <<mainPc, assistant_response, audio_stopped, history, new_prompt, event, nEvents,
                engineOut, callerOut, mutatorCalls, response_active, utterance, exVars, prVars,
                serviceVars>>

\* The media frames the caller sends, in order; each carries its own payload.
CallerFrames == [k \in 1..MaxFrames |-> <<"ulaw", k>>]

\* The media frames the caller task has read while the connection was open.
frames_read == Len(forwarded)

\* Lines 240-244: the next media frame is read and its payload sent to the
\* engine before the task reads again; the send raises on a closed
\* connection, and line 257 closes it again.
twilio_media ==
    /\ twilioPc = "running"
    /\ openai_ws # "none"
    /\ frames_read < MaxFrames
    /\ IF openai_ws = "open"
       THEN /\ forwarded' = Append(forwarded, AudioAppend(CallerFrames[frames_read + 1]).audio)
            /\ UNCHANGED <<twilioPc, openai_ws>>
       ELSE /\ twilioPc' = "failed"
            /\ openai_ws' = "closed"
            /\ UNCHANGED forwarded
    /\ UNCHANGED <<stream_sid, bookings, nextId, nCalls>>
    /\ MainIdle

\* Lines 246-247.
twilio_start ==
    /\ twilioPc = "running"
    /\ stream_sid' = "MZ1"
    /\ UNCHANGED <<twilioPc, openai_ws, forwarded, bookings, nextId, nCalls>>
    /\ MainIdle

\* Lines 249-251.
twilio_stop ==
    /\ twilioPc = "running"
    /\ twilioPc' = "returned"
    /\ UNCHANGED <<stream_sid, openai_ws, forwarded, bookings, nextId, nCalls>>
    /\ MainIdle

\* Lines 255-258: the caller connection fails, the engine connection is closed.
twilio_error ==
    /\ twilioPc = "running"
    /\ twilioPc' = "failed"
    /\ openai_ws' = IF openai_ws = "none" THEN "none" ELSE "closed"
    /\ UNCHANGED <<stream_sid, forwarded, bookings, nextId, nCalls>>
    /\ MainIdle

\* ------------------------------------------------------- the environment

\* The engine closes the connection, normally or with an error.
engine_closes ==
    /\ openai_ws = "open"
    /\ openai_ws' \in {"closed", "broken"}
    /\ UNCHANGED <<twilioPc, stream_sid, forwarded, bookings, nextId, nCalls>>
    /\ MainIdle

\* ---------------------------------------- the sessions' store calls

\* The sessions of the assistants call the store on completed utterances
\* (lines 128, 146 and 163), in any order.
Assistants == {ThisAssistant, "assistant-2"}
Conversations == {ThisConversation, PeerConversation}
Dates == {Today, "2025-03-11"}
Times == {14 * 60, 15 * 60}

StoreCall ==
    /\ nCalls < MaxCalls
    /\ nCalls' = nCalls + 1
    /\ UNCHANGED <<twilioPc, openai_ws, stream_sid, forwarded>>
    /\ MainIdle

call_handle_booking ==
    /\ StoreCall
    /\ \E a \in Assistants, c \in Conversations, d \in Dates, t \in Times :
          bookings' \in handle_booking(bookings, nextId, a, c, d, t, "Alex", "checkup")
    /\ nextId' = nextId + 1

call_cancel_booking ==
    /\ StoreCall
    /\ \E a \in Assistants, d \in Dates, t \in Times :
          bookings' \in cancel_booking(bookings, a, d, t)
    /\ UNCHANGED nextId

call_reschedule_booking ==
    /\ StoreCall
    /\ \E a \in Assistants, d \in Dates, t \in Times, nt \in Times :
          bookings' \in reschedule_booking(bookings, a, d, t, d, nt)
    /\ UNCHANGED nextId

\* Another session of the same assistant completes an utterance with an
\* action and calls the store as lines 128-169 do.
PeerCalls ==
    {Call("handle_booking", Today, t, NoTime, "Sam", "") : t \in Times}
    \cup {Call("cancel_booking", now.date, t, NoTime, "", "") : t \in Times}
    \cup {Call("reschedule_booking", now.date, 14 * 60, 15 * 60, "", "")}

peer_session_commits ==
    /\ StoreCall
    /\ \E c \in PeerCalls :
          /\ bookings' \in apply_call(bookings, nextId, ThisAssistant, PeerConversation, c)
          /\ nextId' = IF c.op = "handle_booking" THEN nextId + 1 ELSE nextId

\* ------------------------------------------ generate_prompt on its own

\* The stores a call of generate_prompt may find: empty, a booking of the
\* assistant for tomorrow at 10:00, a booking of another assistant today at
\* 14:00, and a booking of the assistant today at 14:15, off the slot grid.
PromptStores ==
    {{},
     {Row(0, ThisAssistant, ThisConversation, "2025-03-11", 10 * 60, "Alex", "checkup")},
     {Row(0, "assistant-2", PeerConversation, Today, 14 * 60, "Sam", "")},
     {Row(0, ThisAssistant, ThisConversation, Today, 14 * 60 + 15, "Alex", "checkup")}}

PromptAssistants == {AssistantOpen, AssistantTuesday, AssistantNoSchedule}

\* generate_prompt is called as the session calls it (lines 66-88); the
\* result is kept with the slot lists of lines 39-51 and with the store and
\* the clock the call read.
assemble ==
    /\ pr_pc = "input"
    /\ LET user_bookings == load_user_bookings(pr_assistant.id, ThisConversation)
           scheduled == pr_assistant.available_days # <<>>
       IN  pr_out' = Append(pr_out,
               [text |-> generate_prompt(load_memory(history), pr_assistant, pr_rag, user_bookings),
                all_slots |-> IF scheduled THEN all_slots(pr_assistant) ELSE <<>>,
                booked_slots |-> IF scheduled THEN booked_slots(pr_assistant) ELSE <<>>,
                available_slots |-> IF scheduled THEN available_slots(pr_assistant) ELSE <<>>,
                user_bookings |-> user_bookings,
                store |-> bookings,
                clock |-> now])
    /\ pr_pc' = IF Len(pr_out) = 1 THEN "done" ELSE "input"
    /\ UNCHANGED <<sessionVars, exVars, now, pr_assistant, pr_rag, serviceVars>>

\* The server clock moves on by a minute, or to the next day.
clock_advances ==
    /\ pr_pc = "input"
    /\ now = Clock(Today, 9 * 60 + 5)
    /\ now' \in {Clock(Today, 9 * 60 + 6), Clock("2025-03-11", 9 * 60 + 5)}
    /\ UNCHANGED <<sessionVars, exVars, pr_pc, pr_assistant, pr_rag, pr_out, serviceVars>>

\* ------------------------------------- extract_booking_data on its own

ExAtoms == {FENCE, JSONWORD, SP, "Hi", JBook}
Texts == UNION {[1..n -> ExAtoms] : n \in 0..MaxLen}
NoResult == [clean |-> <<>>, data |-> None]

Extract ==
    /\ ex_pc = "input"
    /\ ex_out' = extract_booking_data(ex_in)
    /\ ex_pc' = "done"
    /\ UNCHANGED <<ex_in, sessionVars, prVars, serviceVars>>

\* ------------------------------------- generate_time_slots step by step

\* The arguments generate_prompt passes at lines 39-45 for the assistants
\* the routes can store: update_assistant stores int(v) as the duration
\* without a range check (assistant_routes.py line 283), and any start and
\* end time.
SlotDurations == {45, 60, 0, 0 - 30}
SlotConfigs ==
    [start_time_24 : {"09:00", "11:00"}, end_time_24 : {"09:00", "11:00"},
     duration_minutes : SlotDurations, available_days : {<<JMonday>>, <<JTuesday>>},
     for_date : {Today, "2025-03-11"}]

NoSlotCall ==
    [start_time_24 |-> "09:00", end_time_24 |-> "09:00", duration_minutes |-> 60,
     available_days |-> <<JMonday>>, for_date |-> Today]

\* Lines 99-122: a closed weekday returns no slots; otherwise current
\* starts at the opening time.
slots_begin ==
    /\ gs_pc = "call"
    /\ IF ~Get(json_loads(gs_args.available_days), weekday(gs_args.for_date), FALSE)
       THEN gs_pc' = "done" /\ UNCHANGED gs_current
       ELSE gs_pc' = "loop" /\ gs_current' = split_hm(gs_args.start_time_24)
    /\ UNCHANGED <<gs_args, gs_slots, sessionVars, exVars, prVars, accountVars, agent>>

\* Lines 126-131: one test of the loop condition, and either one iteration
\* or the return.
slots_step ==
    /\ gs_pc = "loop"
    /\ Len(gs_slots) < MaxSlots
    /\ IF gs_current < split_hm(gs_args.end_time_24)
       THEN /\ gs_slots' = Append(gs_slots, pretty(gs_current))
            /\ gs_current' = gs_current + gs_args.duration_minutes
            /\ UNCHANGED gs_pc
       ELSE /\ gs_pc' = "done"
            /\ UNCHANGED <<gs_current, gs_slots>>
    /\ UNCHANGED <<gs_args, sessionVars, exVars, prVars, accountVars, agent>>

\* ------------------------------------------- BusinessVoiceTestAgent

\* The agent before process() is called (business_voice_agent.py lines 19-22).
NewAgent ==
    [pc |-> "start", openai_ws |-> "none", audio_task |-> "none", finished |-> FALSE,
     stream_sid |-> "None", nEvents |-> 0, forwarded |-> 0, event |-> Ev("none", <<>>),
     out |-> <<>>]

ErrorFrame == [event |-> "error"]

\* What a step of the agent leaves alone.
AgentOnly == UNCHANGED <<sessionVars, exVars, prVars, gsVars, accountVars>>

\* Lines 29-39: without a key the frontend is told and process() returns.
agent_no_key ==
    /\ agent.pc = "start"
    /\ agent' = [agent EXCEPT !.pc = "done", !.out = <<ErrorFrame>>]
    /\ AgentOnly

\* Lines 52-62: the engine is connected, the session initialized and the
\* audio task created.
agent_connect ==
    /\ agent.pc = "start"
    /\ agent' = [agent EXCEPT !.pc = "turn", !.openai_ws = "open", !.audio_task = "running"]
    /\ AgentOnly

\* Lines 81-100: the connect raised; the frontend is told.
agent_connect_fails ==
    /\ agent.pc = "start"
    /\ agent' = [agent EXCEPT !.pc = "done", !.out = <<ErrorFrame>>]
    /\ AgentOnly

\* The engine events the agent reads: audio that is and is not base64,
\* text, a caller transcript, an interruption and an event no test matches.
AgentEvents ==
    {Ev(T_AUDIO, <<"ulaw">>), Ev(T_AUDIO, <<"not base64">>), Ev(T_TEXT, <<"Sure.">>),
     Ev(T_TRANSCRIPT, UserSaid), Ev(T_SPEECH_STARTED, <<>>), Ev(T_OTHER, NoResponseKey)}

\* Lines 104-172: one event is read and handled inside _process_ai_response.
agent_event ==
    /\ agent.pc = "turn"
    /\ agent.openai_ws = "open"
    /\ agent.nEvents < MaxEvents
    /\ \E e \in AgentEvents :
          agent' = [agent EXCEPT
                       !.event = e,
                       !.nEvents = @ + 1,
                       !.out = IF e = Ev(T_AUDIO, <<"ulaw">>)
                               THEN <<MediaFrame(agent.stream_sid, e.arg)>>
                               ELSE IF e.type = T_SPEECH_STARTED
                               THEN <<ClearFrame(agent.stream_sid)>>
                               ELSE <<>>]
    /\ AgentOnly

\* Lines 104 and 174: the connection was closed normally, the iteration
\* over it ends and _process_ai_response returns False.
agent_turn_returns ==
    /\ agent.pc = "turn"
    /\ agent.openai_ws = "closed"
    /\ agent' = [agent EXCEPT !.pc = "test", !.finished = FALSE]
    /\ AgentOnly

\* Lines 104 and 72-76: the connection broke, the iteration raises and the
\* loop of process() breaks.
agent_turn_raises ==
    /\ agent.pc = "turn"
    /\ agent.openai_ws = "broken"
    /\ agent' = [agent EXCEPT !.pc = "cancel"]
    /\ AgentOnly

\* Lines 66-71: the loop of process() breaks when finished, and calls
\* _process_ai_response again when not.
agent_test ==
    /\ agent.pc = "test"
    /\ agent' = [agent EXCEPT !.pc = IF agent.finished THEN "cancel" ELSE "turn"]
    /\ AgentOnly

\* Lines 78-79 and 96-100: the audio task is cancelled and the engine
\* connection closed.
agent_cancel ==
    /\ agent.pc = "cancel"
    /\ agent' = [agent EXCEPT !.pc = "done",
                              !.audio_task = IF @ = "running" THEN "cancelled" ELSE @,
                              !.openai_ws = "closed"]
    /\ AgentOnly

\* Lines 188-203: a media frame of the frontend is forwarded; a failed send
\* is caught and printed.
agent_audio_media ==
    /\ agent.audio_task = "running"
    /\ agent.forwarded < MaxFrames
    /\ agent' = [agent EXCEPT !.forwarded = IF agent.openai_ws = "open" THEN @ + 1 ELSE @]
    /\ AgentOnly

\* Lines 205-207.
agent_audio_start ==
    /\ agent.audio_task = "running"
    /\ agent' = [agent EXCEPT !.stream_sid = "MZ1"]
    /\ AgentOnly

\* Lines 209-211: the frontend sent stop and receive_audio returns.
agent_audio_stop ==
    /\ agent.audio_task = "running"
    /\ agent' = [agent EXCEPT !.audio_task = "returned"]
    /\ AgentOnly

\* The engine closes the agent's connection, normally or with an error.
agent_engine_closes ==
    /\ agent.openai_ws = "open"
    /\ agent.pc # "start"
    /\ \E how \in {"closed", "broken"} : agent' = [agent EXCEPT !.openai_ws = how]
    /\ AgentOnly

\* ------------------------------------------- accounts, plans and webhooks

UserIds == {1, 2}

\* A users row with the column defaults (models.py lines 6-36).
NewUser ==
    [plan |-> "none", subscription_status |-> "inactive", max_agents |-> 0,
     allowed_addons |-> <<>>, stripe_customer_id |-> "None"]

\* User.get_plan_limits (models.py lines 51-68).
get_plan_limits(plan) ==
    IF plan = "basic" THEN [max_agents |-> 1, allowed_addons |-> <<"voice", "booking">>]
    ELSE IF plan = "pro"
    THEN [max_agents |-> 3,
          allowed_addons |-> <<"voice", "chat", "booking", "crm", "analytics">>]
    ELSE [max_agents |-> 0, allowed_addons |-> <<>>]

\* user.assistants: the ids of the rows of one user.
assistants_of(rows, u) == {i \in DOMAIN rows : rows[i].user_id = u}

\* User.can_create_agent (models.py lines 38-43).
can_create_agent(u) ==
    IF users[u].subscription_status # "active"
    THEN FALSE
    ELSE Cardinality(assistants_of(assistants, u)) < users[u].max_agents

\* What a step of the routes leaves alone.
AccountsOnly == UNCHANGED <<sessionVars, exVars, prVars, gsVars, agent>>

\* register_business lines 52-61 and register_assistant lines 348-357: the
\* user is looked up and the plan checked; a request that passes goes on.
register_check ==
    /\ reg.begun < MaxRequests
    /\ \E u \in UserIds \cup {3} :
          reg' = [begun |-> reg.begun + 1,
                  checked |-> IF u \in UserIds /\ can_create_agent(u)
                              THEN [reg.checked EXCEPT ![u] = @ + 1]
                              ELSE reg.checked]
    /\ UNCHANGED <<users, assistants, hook>>
    /\ AccountsOnly

\* register_business lines 72-85 and register_assistant lines 368-387: the
\* row is added and committed.
register_commit ==
    /\ \E u \in UserIds :
          /\ reg.checked[u] > 0
          /\ reg' = [reg EXCEPT !.checked[u] = @ - 1]
          /\ assistants' = Append(assistants, [user_id |-> u, status |-> "active"])
    /\ UNCHANGED <<users, hook>>
    /\ AccountsOnly

\* register_business lines 64-69: no number could be bought.
register_twilio_fails ==
    /\ \E u \in UserIds :
          /\ reg.checked[u] > 0
          /\ reg' = [reg EXCEPT !.checked[u] = @ - 1]
    /\ UNCHANGED <<users, assistants, hook>>
    /\ AccountsOnly

\* STRIPE_PRICE_IDS (stripe_routes.py lines 18-21) read backwards, as lines
\* 263-270 do.
PlanOfPrice(price) ==
    IF price = "price_basic" THEN "basic"
    ELSE IF price = "price_pro" THEN "pro"
    ELSE "None"

StripeEvent(type, customer, user_id, plan_id, price, status) ==
    [type |-> type, customer |-> customer, user_id |-> user_id, plan_id |-> plan_id,
     price |-> price, status |-> status]

Customers == {"cus_1", "cus_2"}

\* The customer of the checkout session that create_checkout_session opens
\* for a user (stripe_routes.py lines 23-80).
CustomerOf(user_id) == IF user_id = "2" THEN "cus_2" ELSE "cus_1"

\* The events Stripe sends: the fields each handler reads.
StripeEvents ==
    {StripeEvent("checkout.session.completed", CustomerOf(u), u, p, "None", "None") :
        u \in {"None", "1", "2", "x"}, p \in {"basic", "pro", "gold"}}
    \cup {StripeEvent("customer.subscription.updated", c, "None", "None", pr, st) :
        c \in Customers, pr \in {"price_basic", "price_pro", "price_old"},
        st \in {"active", "past_due"}}
    \cup {StripeEvent(t, c, "None", "None", "None", "None") :
        t \in {"invoice.payment_failed", "customer.subscription.deleted",
               "invoice.payment_succeeded", "charge.refunded"},
        c \in Customers}

\* The events of the deliveries that are not Stripe's.
ForgedEvents ==
    {StripeEvent("checkout.session.completed", "cus_1", "1", "pro", "None", "None"),
     StripeEvent("customer.subscription.deleted", "cus_1", "None", "None", "None", "None"),
     StripeEvent("charge.refunded", "cus_1", "None", "None", "None", "None")}

\* A delivery to /webhook: whether the secret is configured, whether the
\* body parses, whether the signature matches, and the event in the body.
Deliveries ==
    [secret : {TRUE}, payload : {"json"}, signature : {"good"}, event : StripeEvents]
    \cup [secret : BOOLEAN, payload : {"json", "garbage"}, signature : {"good", "bad"},
          event : ForgedEvents]

\* stripe.Webhook.construct_event as lines 140-154 use it: "ValueError",
\* "SignatureVerificationError", or "ok".
construct_event(d) ==
    IF d.signature # "good" THEN "SignatureVerificationError"
    ELSE IF d.payload # "json" THEN "ValueError"
    ELSE "ok"

\* User.query.get(int(user_id)) (line 185): the id, 0 for no such row.
user_by_id(user_id) ==
    IF user_id = "1" THEN 1 ELSE IF user_id = "2" THEN 2 ELSE 0

\* User.query.filter_by(stripe_customer_id=...).first(): the id, 0 for none.
user_by_customer(us, customer) ==
    IF \E u \in UserIds : us[u].stripe_customer_id = customer
    THEN CHOOSE u \in UserIds :
            /\ us[u].stripe_customer_id = customer
            /\ \A v \in UserIds : us[v].stripe_customer_id = customer => u <= v
    ELSE 0

Response(us, rows, code) == [users |-> us, assistants |-> rows, code |-> code]

\* Lines 166-229.
checkout_session_completed(us, rows, ev) ==
    LET u == user_by_id(ev.user_id)
        limits == get_plan_limits(ev.plan_id)
        known == ev.plan_id \in {"basic", "pro"}
    IN  IF ev.user_id = "None" THEN Response(us, rows, 200)
        ELSE IF ev.user_id = "x" THEN Response(us, rows, 500)
        ELSE IF u = 0 THEN Response(us, rows, 200)
        ELSE Response(
                [us EXCEPT
                    ![u].stripe_customer_id = IF @ = "None" THEN ev.customer ELSE @,
                    ![u].subscription_status = "active",
                    ![u].plan = IF known THEN ev.plan_id ELSE @,
                    ![u].max_agents = IF known THEN limits.max_agents ELSE @,
                    ![u].allowed_addons = IF known THEN limits.allowed_addons ELSE @],
                rows, 200)

\* Lines 231-253.
invoice_payment_failed(us, rows, ev) ==
    LET u == user_by_customer(us, ev.customer)
    IN  IF u = 0 THEN Response(us, rows, 200)
        ELSE Response([us EXCEPT ![u].subscription_status = "past_due"], rows, 200)

\* Lines 255-287.
customer_subscription_updated(us, rows, ev) ==
    LET u == user_by_customer(us, ev.customer)
        plan_id == PlanOfPrice(ev.price)
        limits == get_plan_limits(plan_id)
        changed == plan_id # "None" /\ plan_id # us[u].plan
    IN  IF u = 0 THEN Response(us, rows, 200)
        ELSE Response(
                [us EXCEPT
                    ![u].subscription_status = ev.status,
                    ![u].plan = IF changed THEN plan_id ELSE @,
                    ![u].max_agents = IF changed THEN limits.max_agents ELSE @,
                    ![u].allowed_addons = IF changed THEN limits.allowed_addons ELSE @],
                rows, 200)

\* Lines 289-307.
customer_subscription_deleted(us, rows, ev) ==
    LET u == user_by_customer(us, ev.customer)
    IN  IF u = 0 THEN Response(us, rows, 200)
        ELSE Response(
                [us EXCEPT
                    ![u].subscription_status = "canceled",
                    ![u].plan = "none",
                    ![u].max_agents = 0,
                    ![u].allowed_addons = <<>>],
                [i \in DOMAIN rows |->
                    IF rows[i].user_id = u THEN [rows[i] EXCEPT !.status = "suspended"]
                    ELSE rows[i]],
                200)

\* Lines 309-325.
invoice_payment_succeeded(us, rows, ev) ==
    LET u == user_by_customer(us, ev.customer)
    IN  IF u # 0 /\ us[u].subscription_status = "past_due"
        THEN Response(
                [us EXCEPT ![u].subscription_status = "active"],
                [i \in DOMAIN rows |->
                    IF rows[i].user_id = u /\ rows[i].status = "suspended"
                    THEN [rows[i] EXCEPT !.status = "active"]
                    ELSE rows[i]],
                200)
        ELSE Response(us, rows, 200)

\* Lines 165-340: the event is dispatched on its type.
handle_event(us, rows, ev) ==
    IF ev.type = "checkout.session.completed" THEN checkout_session_completed(us, rows, ev)
    ELSE IF ev.type = "invoice.payment_failed" THEN invoice_payment_failed(us, rows, ev)
    ELSE IF ev.type = "customer.subscription.updated"
    THEN customer_subscription_updated(us, rows, ev)
    ELSE IF ev.type = "customer.subscription.deleted"
    THEN customer_subscription_deleted(us, rows, ev)
    ELSE IF ev.type = "invoice.payment_succeeded"
    THEN invoice_payment_succeeded(us, rows, ev)
    ELSE Response(us, rows, 200)

\* The same without the verification of lines 140-154.
webhook_unverified(us, rows, d) ==
    IF ~d.secret THEN Response(us, rows, 500)
    ELSE IF d.payload # "json" THEN Response(us, rows, 400)
    ELSE handle_event(us, rows, d.event)

\* stripe_webhook (lines 120-340) on the tables us and rows: the tables and
\* the status code it leaves.
webhook(us, rows, d) ==
    IF ~d.secret THEN Response(us, rows, 500)
    ELSE IF construct_event(d) # "ok" THEN Response(us, rows, 400)
    ELSE handle_event(us, rows, d.event)

stripe_webhook ==
    /\ \E d \in Deliveries :
          LET out == webhook(users, assistants, d)
          IN  /\ users' = out.users
              /\ assistants' = out.assistants
              /\ hook' = out.code
    /\ UNCHANGED reg
    /\ AccountsOnly

AccountsIdle ==
    /\ users = [u \in UserIds |-> NewUser]
    /\ assistants = <<>>
    /\ reg = [begun |-> 0, checked |-> [u \in UserIds |-> 0]]
    /\ hook = 0

\* ------------------------------------------------------ specifications

\* generate_time_slots is not run step by step.
SlotsIdle ==
    gs_pc = "idle" /\ gs_args = NoSlotCall /\ gs_current = 0 /\ gs_slots = <<>>

ServicesIdle == SlotsIdle /\ AccountsIdle /\ agent = NewAgent

\* The call takes place on Today at 09:05; generate_prompt is not applied on
\* its own.
PromptIdle ==
    /\ now = Clock(Today, 9 * 60 + 5)
    /\ pr_pc = "idle" /\ pr_assistant = AssistantOpen /\ pr_rag = <<>> /\ pr_out = <<>>

Init ==
    /\ SessionInit
    /\ bookings = {}
    /\ ex_pc = "idle" /\ ex_in = <<>> /\ ex_out = NoResult
    /\ PromptIdle
    /\ ServicesIdle

\* What every session does, whatever the engine sends.
Session ==
    \/ Connect
    \/ ConnectFails
    \/ initialize_session
    \/ SendRaises
    \/ loop_ends
    \/ loop_raises
    \/ twilio_media
    \/ twilio_start
    \/ twilio_stop
    \/ twilio_error
    \/ engine_closes

\* The session over the events of the turn cycle.
TurnEvent ==
    \E e \in TurnEvents :
        \/ on_transcription_completed(e)
        \/ on_response_done(e)
        \/ on_audio_delta(e)
        \/ on_content_delta(e)

Next ==
    \/ Session
    \/ TurnEvent
    \/ send_session_update

Spec == Init /\ [][Next]_vars

\* The steps of process() and of its handlers are taken once they are
\* enabled (the event loop runs every ready task); what the engine, the
\* caller and the network do is under no obligation.
Fairness ==
    /\ WF_vars(Connect \/ ConnectFails)
    /\ WF_vars(initialize_session)
    /\ WF_vars(SendRaises)
    /\ WF_vars(send_session_update)
    /\ WF_vars(loop_ends)
    /\ WF_vars(loop_raises)

FairSpec == Init /\ [][Next]_vars /\ Fairness

\* The session over the events of the audio path.
StreamEvent ==
    \E e \in StreamEvents :
        \/ on_response_done(e)
        \/ on_audio_delta(e)
        \/ on_content_delta(e)
        \/ on_speech_started(e)
        \/ on_speech_final(e)
        \/ on_other_event(e)

StreamNext ==
    \/ Session
    \/ StreamEvent
    \/ send_clear

SpecStream == Init /\ [][StreamNext]_vars

\* The session over completed utterances with well-formed and malformed
\* blocks, and caller transcripts.
ActionEvents ==
    {Ev(T_DONE, u) : u \in MalformedUtterances \cup {Narration \o Block(JBook)}}
    \cup {Ev(T_TRANSCRIPT, UserSaid)}

ActionEvent ==
    \E e \in ActionEvents :
        \/ on_transcription_completed(e)
        \/ on_response_done(e)

ActionNext ==
    \/ Session
    \/ ActionEvent
    \/ send_session_update

SpecAction == Init /\ [][ActionNext]_vars

\* The session over completed utterances whose blocks differ in their keys:
\* with and without a date and a name, with times in either encoding, with
\* two recognized keys and with none.
KeyBlocks ==
    {JBook, JBookTomorrow, JBookBare, JCancelDated, JReschedDated, JReschedMixed,
     JBookAndCancel, JCancelAndResched, JOtherKey}

KeyEvent ==
    \E json \in KeyBlocks : on_response_done(Ev(T_DONE, Narration \o Block(json)))

KeyNext ==
    \/ Connect
    \/ initialize_session
    \/ KeyEvent
    \/ engine_closes
    \/ loop_ends
    \/ loop_raises

SpecKeys == Init /\ [][KeyNext]_vars

\* The session over a conversation that takes turns: the engine completes
\* the greeting it was asked for at lines 308-322, then the caller and the
\* engine complete an utterance each, the caller's reported by either of the
\* two events that carry a final transcript.
TurnOf(k) ==
    IF k = 1 THEN {Ev(T_DONE, Greeting)}
    ELSE IF k % 2 = 1 THEN {Ev(T_DONE, Narration), Ev(T_DONE, Narration \o Block(JBook))}
    ELSE {Ev(T_TRANSCRIPT, UserSaid), Ev(T_SPEECH_FINAL, UserSaid)}

DialogueEvent ==
    \E e \in TurnOf(nEvents + 1) :
        \/ on_response_done(e)
        \/ on_transcription_completed(e)
        \/ on_speech_final(e)

DialogueNext ==
    \/ Session
    \/ DialogueEvent
    \/ send_session_update

SpecDialogue == Init /\ [][DialogueNext]_vars

\* The session over caller transcripts and events no test matches, while
\* the booking store may be out of reach.
FaultEvents ==
    {Ev(T_TRANSCRIPT, UserSaid), Ev(T_READY, NoResponseKey), Ev(T_OTHER, NoResponseKey),
     Ev(T_OTHER, ResponseNull)}

FaultEvent ==
    \E e \in FaultEvents :
        \/ on_transcription_completed(e)
        \/ on_transcription_store_unavailable(e)
        \/ on_other_event(e)
        \/ on_event_shape_raises(e)

FaultNext ==
    \/ Session
    \/ FaultEvent
    \/ send_session_update

SpecFault == Init /\ [][FaultNext]_vars

\* The session over caller transcripts and confirmed bookings, while other
\* sessions of the assistant create, cancel and reschedule bookings.
ContextEvents ==
    {Ev(T_TRANSCRIPT, UserSaid), Ev(T_DONE, Narration \o Block(JBook))}

ContextEvent ==
    \E e \in ContextEvents :
        \/ on_transcription_completed(e)
        \/ on_response_done(e)

ContextNext ==
    \/ Connect
    \/ initialize_session
    \/ ContextEvent
    \/ send_session_update
    \/ peer_session_commits

SpecContext == Init /\ [][ContextNext]_vars

\* generate_prompt called twice for one assistant, history and snippets,
\* while the clock runs and other sessions commit their actions.
PromptInit ==
    /\ SessionInit
    /\ bookings \in PromptStores
    /\ ex_pc = "idle" /\ ex_in = <<>> /\ ex_out = NoResult
    /\ now = Clock(Today, 9 * 60 + 5)
    /\ pr_pc = "input" /\ pr_assistant \in PromptAssistants /\ pr_rag \in RagResults
    /\ pr_out = <<>>
    /\ ServicesIdle

PromptNext ==
    \/ assemble
    \/ clock_advances
    \/ peer_session_commits

SpecPrompt == PromptInit /\ [][PromptNext]_vars

\* The booking store under the calls of the sessions.
StoreNext ==
    \/ call_handle_booking
    \/ call_cancel_booking
    \/ call_reschedule_booking

SpecStore == Init /\ [][StoreNext]_vars

\* generate_time_slots on every configuration.
SlotsInit ==
    /\ SessionInit
    /\ bookings = {}
    /\ ex_pc = "idle" /\ ex_in = <<>> /\ ex_out = NoResult
    /\ PromptIdle
    /\ gs_pc = "call" /\ gs_args \in SlotConfigs /\ gs_current = 0 /\ gs_slots = <<>>
    /\ agent = NewAgent
    /\ AccountsIdle

SlotsNext ==
    \/ slots_begin
    \/ slots_step

SpecSlots == SlotsInit /\ [][SlotsNext]_vars

\* The register routes and the webhook route on one database.
AccountsNext ==
    \/ register_check
    \/ register_commit
    \/ register_twilio_fails
    \/ stripe_webhook

SpecAccounts == Init /\ [][AccountsNext]_vars

\* A BusinessVoiceTestAgent with its frontend and its engine.
AgentNext ==
    \/ agent_no_key
    \/ agent_connect
    \/ agent_connect_fails
    \/ agent_event
    \/ agent_turn_returns
    \/ agent_turn_raises
    \/ agent_test
    \/ agent_cancel
    \/ agent_audio_media
    \/ agent_audio_start
    \/ agent_audio_stop
    \/ agent_engine_closes

\* The event loop runs every step of process() that is ready; the frontend
\* and the engine are under no obligation.
AgentFairness ==
    /\ WF_vars(agent_turn_returns)
    /\ WF_vars(agent_turn_raises)
    /\ WF_vars(agent_test)
    /\ WF_vars(agent_cancel)

SpecAgent == Init /\ [][AgentNext]_vars /\ AgentFairness

\* extract_booking_data on every text of up to MaxLen atoms.
ExtractInit ==
    /\ SessionInit
    /\ bookings = {}
    /\ ex_pc = "input" /\ ex_in \in Texts /\ ex_out = NoResult
    /\ PromptIdle
    /\ ServicesIdle

SpecExtract == ExtractInit /\ [][Extract]_vars

\* ================================================================ claims

HasMedia(frames) == \E i \in 1..Len(frames) : frames[i].event = "media"
HasClear(frames) == \E i \in 1..Len(frames) : frames[i].event = "clear"
HasUpdate(msgs) == \E i \in 1..Len(msgs) : msgs[i].type = "session.update"

\* (i, j) is a fenced block of the text that holds the document json: the
\* opening marker starts at i, the closing fence is at j, and between them
\* there is json and whitespace only.
IsBlock(text, i, j, json) ==
    /\ StartsAt(text, start_tag, i)
    /\ j > i + 1 /\ j <= Len(text)
    /\ text[j] = FENCE
    /\ strip(Slice(text, i + 2, j - 1)) = <<json>>

HasBlockOf(text, json) ==
    \E i \in 1..Len(text), j \in 1..Len(text) : IsBlock(text, i, j, json)

BookFields == [time |-> "14:00", date |-> "2025-03-10", name |-> "Alex", details |-> "checkup"]

\* The completed utterances of the history that carry a booking block.
ConfirmedInHistory ==
    {i \in 1..Len(history) : history[i].role = "assistant" /\ HasBlockOf(history[i].text, JBook)}

\* C1: a completed AI utterance with a valid booking_confirmed block makes
\* CallHandler issue exactly one handle_booking call, with the date and time
\* of the block; a text delta makes it issue none; and over the whole
\* session the bookings created are as many as the confirmed utterances.
C1_OneCreatePerConfirmedUtterance ==
    /\ (event.type = T_DONE /\ HasBlockOf(event.arg, JBook))
          => mutatorCalls = <<Call("handle_booking", "2025-03-10", 14 * 60, NoTime, "Alex", "checkup")>>
    /\ event.type = T_TEXT => mutatorCalls = <<>>
    /\ nextId = 1 + Cardinality(ConfirmedInHistory)

C1_Witness ==
    /\ event = Ev(T_DONE, Narration \o Block(JBook))
    /\ nEvents = 3
    /\ Cardinality(ConfirmedInHistory) = 1
    /\ \E r \in bookings : r.date = "2025-03-10" /\ r.time = 14 * 60 /\ r.customer_name = "Alex"

\* C2: the store never holds two bookings of one assistant for the same
\* date and time.
C2_AtMostOneBookingPerSlot ==
    \A r1 \in bookings, r2 \in bookings :
        (r1.assistant_id = r2.assistant_id /\ r1.date = r2.date /\ r1.time = r2.time) => r1 = r2

\* C3: on speech_started the truncate goes to the engine, then the clear to
\* the caller, and only then is the next event read; a media frame is sent
\* for an audio delta only, so none is sent between the interruption and
\* its clear.
C3_ClearBeforeResumedAudio ==
    /\ mainPc = "send_clear"
          => (event.type = T_SPEECH_STARTED /\ engineOut = <<Truncate>> /\ callerOut = <<>>)
    /\ (event.type = T_SPEECH_STARTED /\ mainPc = "recv")
          => (engineOut = <<Truncate>> /\ Len(callerOut) = 1 /\ HasClear(callerOut))
    /\ HasMedia(callerOut) => event.type = T_AUDIO

C3_Witness ==
    /\ event.type = T_SPEECH_STARTED
    /\ mainPc = "recv"
    /\ nEvents = 2
    /\ response_active
    /\ engineOut = <<Truncate>>
    /\ HasClear(callerOut)

\* C4: while the text of the utterance being streamed contains the
\* booking_confirmed marker, no audio delta is forwarded to the caller.
C4_NoAudioOnceMarkerSeen ==
    (event.type = T_AUDIO /\ has_booking_marker(utterance)) => ~HasMedia(callerOut)

\* C5: when an utterance has completed the flag is false and the buffer
\* empty, and the audio of a response whose text holds no block is
\* forwarded.
C5_SuppressionResets ==
    /\ (event.type = T_DONE /\ mainPc = "recv") => (~audio_stopped /\ assistant_response = <<>>)
    /\ (event.type = T_AUDIO /\ ~has_booking_marker(utterance)) => HasMedia(callerOut)

\* C6: from the receipt of a non-empty caller transcript to the send of the
\* session.update no frame goes to the caller and no other event is
\* handled; when the handler is back at the loop the update has been sent,
\* and its instructions hold the transcript just appended.
C6_UpdateBeforeFurtherOutput ==
    /\ mainPc = "send_update"
          => (event = Ev(T_TRANSCRIPT, UserSaid) /\ engineOut = <<>> /\ callerOut = <<>>)
    /\ (event.type = T_TRANSCRIPT /\ event.arg # <<>> /\ mainPc = "recv")
          => /\ Len(engineOut) = 1 /\ HasUpdate(engineOut)
             /\ engineOut[1].instructions.history # <<>>
             /\ engineOut[1].instructions.history[Len(engineOut[1].instructions.history)]
                    = Entry("user", event.arg)
             /\ callerOut = <<>>

C6_Witness ==
    /\ event = Ev(T_TRANSCRIPT, UserSaid)
    /\ mainPc = "recv"
    /\ nEvents = 2
    /\ HasUpdate(engineOut)

\* C7: a session.update is sent for a caller transcript only when no
\* response is streaming audio.
C7_NoUpdateWhileResponseStreams ==
    (event.type = T_TRANSCRIPT /\ HasUpdate(engineOut)) => ~response_active

\* C8: once the caller task has read the stop event, no step appends to the
\* history, calls the booking store or sends a session.update.
C8_NothingAfterStop ==
    [][twilioPc = "returned"
          => /\ history' = history
             /\ bookings' = bookings
             /\ (HasUpdate(engineOut') => engineOut' = engineOut)]_vars

\* C9: after the stop event the session terminates: the engine connection
\* is closed and process() has ended.
C9_StopLeadsToTerminated ==
    (twilioPc = "returned") ~> (mainPc = "done" /\ openai_ws = "closed")

\* C10 as written: a text that contains a fenced block with a record is
\* returned without that block, trimmed, with the fields of the record.
C10_AnyBlockRemoved ==
    (ex_pc = "done" /\ HasBlockOf(ex_in, JBook))
        => \E i \in 1..Len(ex_in), j \in 1..Len(ex_in) :
              /\ IsBlock(ex_in, i, j, JBook)
              /\ ex_out.clean = strip(Slice(ex_in, 1, i - 1) \o Slice(ex_in, j + 1, Len(ex_in)))
              /\ ex_out.data = [booking_confirmed |-> BookFields]

\* C10: when the first opening marker of the text opens a fenced block with
\* a record, the text is returned without that block, trimmed, with the
\* fields of the record.
C10_FirstBlockRemoved ==
    \A i \in 1..Len(ex_in), j \in 1..Len(ex_in) :
        (/\ ex_pc = "done"
         /\ IsBlock(ex_in, i, j, JBook)
         /\ \A k \in 1..(i - 1) : ~StartsAt(ex_in, start_tag, k))
        => /\ ex_out.clean = strip(Slice(ex_in, 1, i - 1) \o Slice(ex_in, j + 1, Len(ex_in)))
           /\ ex_out.data = [booking_confirmed |-> BookFields]

C10_Witness ==
    /\ ex_pc = "done"
    /\ ex_in = <<"Hi", SP, FENCE, JSONWORD, JBook, FENCE>>
    /\ ex_out.clean = <<"Hi">>
    /\ ex_out.data.booking_confirmed.time = "14:00"

\* The first opening marker of the text, 0 when there is none, and the
\* first fence after it, 0 when there is none.
FirstOpening(text) == find(text, start_tag, 1)
ClosingOf(text, i) == find(text, end_tag, i + 2)

\* C11: a text with no opening marker, with a first opening marker that no
\* fence follows, or with content between the first opening marker and the
\* next fence that does not parse, is returned as it is, with no action.
\* (A result is returned in each case: the JSONDecodeError of json.loads is
\* caught at line 201.)
C11_MalformedLeftUnchanged ==
    LET i == FirstOpening(ex_in)
        j == ClosingOf(ex_in, i)
    IN  (/\ ex_pc = "done"
         /\ \/ i = 0
            \/ j = 0
            \/ json_loads(strip(Slice(ex_in, i + 2, j - 1))) = JSONDecodeError)
        => ex_out = [clean |-> ex_in, data |-> None]

C11_Witness ==
    /\ ex_pc = "done"
    /\ ex_in = <<"Hi", FENCE, JSONWORD, "Hi", FENCE, "Hi">>
    /\ ex_out = [clean |-> ex_in, data |-> None]

\* C12: a completed utterance whose block has a time in no accepted encoding,
\* or no time, is handled without a mutator call, is recorded in the
\* history, and leaves the session receiving with the connection as it was.
C12_MalformedActionRecovered ==
    [][(/\ nEvents' = nEvents + 1
        /\ event'.type = T_DONE
        /\ HasBlockOf(event'.arg, JBadTime) \/ HasBlockOf(event'.arg, JNoTime))
       => /\ mutatorCalls' = <<>>
          /\ bookings' = bookings
          /\ history' = Append(history, Entry("assistant", event'.arg))
          /\ mainPc' = "recv"
          /\ openai_ws' = openai_ws]_vars

\* C13: the assistant entry recorded for a completed utterance with an
\* extracted action is the cleaned text, and no assistant entry holds the
\* fenced block of a committed action.
C13_HistoryHoldsCleanedText ==
    /\ (event.type = T_DONE /\ extract_booking_data(event.arg).data # None)
          => /\ history # <<>>
             /\ history[Len(history)] = Entry("assistant", extract_booking_data(event.arg).clean)
    /\ \A i \in 1..Len(history) :
          history[i].role = "assistant"
              => \A json \in {JBook, JCancel, JResched} : ~HasBlockOf(history[i].text, json)

\* The slots of AssistantOpen on Today, by their times, and the labels of
\* those that the store holds a booking for.
SlotTimes == [k \in 1..16 |-> 9 * 60 + 30 * (k - 1)]
IsBooked(t) ==
    \E r \in bookings : r.assistant_id = ThisAssistant /\ r.date = Today /\ r.time = t
Labels(times) == [k \in 1..Len(times) |-> pretty(times[k])]

\* C14: the instructions computed for a caller transcript hold the history
\* with the entry just appended, and their booked and available lists are
\* those of the store as it is when the transcript is handled, whoever
\* changed it; the update sent is the one computed.
C14_UpdateFromCurrentState ==
    [][/\ (mainPc = "recv" /\ mainPc' = "send_update")
          => /\ new_prompt'.history = history'
             /\ history' = Append(history, Entry("user", event'.arg))
             /\ new_prompt'.booked = slot_list(Labels(SelectSeq(SlotTimes, IsBooked)))
             /\ new_prompt'.available
                    = slot_list(Labels(SelectSeq(SlotTimes, LAMBDA t : ~IsBooked(t))))
       /\ (mainPc = "send_update" /\ mainPc' = "recv")
          => engineOut' = <<SessionUpdate(new_prompt)>>]_vars

C14_Witness ==
    /\ event = Ev(T_TRANSCRIPT, UserSaid)
    /\ mainPc = "recv"
    /\ nEvents = 2
    /\ engineOut # <<>>
    /\ engineOut[1].type = "session.update"
    /\ engineOut[1].instructions.booked = pretty(15 * 60)
    /\ \E r \in bookings : r.conversation_id = PeerConversation /\ r.time = 15 * 60
    /\ \A r \in bookings : r.time = 15 * 60

Range(f) == {f[k] : k \in 1..Len(f)}

\* The time of the k-th slot of an assistant: opening + (k - 1) * duration.
SlotTime(assistant, k) ==
    split_hm(assistant.start_time) + (k - 1) * assistant.booking_duration_minutes

\* The store of a call holds a booking of the assistant on the day of the
\* call at time t.
BookedAt(call, t) ==
    \E r \in call.store :
        r.assistant_id = pr_assistant.id /\ r.date = call.clock.date /\ r.time = t

NoBookingToday(call) ==
    \A r \in call.store : ~(r.assistant_id = pr_assistant.id /\ r.date = call.clock.date)

\* C16: for an assistant with a schedule, the booked and the available list
\* have no slot in common, each keeps the order of generation, together
\* they hold every slot generated for today, and the k-th slot is in the
\* booked list exactly when the store holds a booking of the assistant for
\* today at the k-th slot's time.
C16_BookedAvailablePartition ==
    \A n \in 1..Len(pr_out) :
        LET call == pr_out[n]
        IN  pr_assistant.available_days # <<>>
            => /\ Range(call.booked_slots) \cap Range(call.available_slots) = {}
               /\ call.booked_slots
                     = SelectSeq(call.all_slots, LAMBDA l : l \in Range(call.booked_slots))
               /\ call.available_slots
                     = SelectSeq(call.all_slots, LAMBDA l : l \notin Range(call.booked_slots))
               /\ \A k \in 1..Len(call.all_slots) :
                     call.all_slots[k] \in Range(call.booked_slots)
                        <=> BookedAt(call, SlotTime(pr_assistant, k))

C16_Witness ==
    /\ pr_assistant = AssistantOpen
    /\ Len(pr_out) = 1
    /\ BookedAt(pr_out[1], 14 * 60)
    /\ BookedAt(pr_out[1], 14 * 60 + 15)
    /\ pr_out[1].booked_slots = <<<<"2", ":", "0", "0", SP, "PM">>>>
    /\ Len(pr_out[1].available_slots) = 15

\* C17: for the assistant open 09:00-17:00 with 30-minute slots, on a
\* Monday with no booking, the available slots begin with "9:00 AM" and the
\* booked slots are rendered as "None"; an empty list is always rendered as
\* "None", and a list of labels as the labels joined by ", " (the two slots
\* of the Tuesday assistant as "9:00 AM, 10:00 AM").
C17_SlotListRendering ==
    \A n \in 1..Len(pr_out) :
        LET call == pr_out[n]
        IN  /\ (/\ pr_assistant = AssistantOpen
                /\ call.clock.date = Today
                /\ NoBookingToday(call))
               => /\ call.text.booked = <<"None">>
                  /\ StartsAt(call.text.available, <<"9", ":", "0", "0", SP, "AM", ",", SP>>, 1)
            /\ pr_assistant.available_days # <<>>
               => /\ call.booked_slots = <<>> => call.text.booked = <<"None">>
                  /\ call.available_slots = <<>> => call.text.available = <<"None">>
                  /\ call.booked_slots # <<>>
                        => call.text.booked = join(call.booked_slots, <<",", SP>>)
                  /\ call.available_slots # <<>>
                        => call.text.available = join(call.available_slots, <<",", SP>>)
            /\ (/\ pr_assistant = AssistantTuesday
                /\ call.clock.date = "2025-03-11"
                /\ NoBookingToday(call))
               => call.text.available
                     = <<"9", ":", "0", "0", SP, "AM", ",", SP, "1", "0", ":", "0", "0", SP, "AM">>

C17_Witness ==
    /\ pr_assistant = AssistantOpen
    /\ Len(pr_out) = 1
    /\ pr_out[1].store = {}
    /\ pr_out[1].clock.date = Today
    /\ pr_out[1].text.booked = <<"None">>
    /\ StartsAt(pr_out[1].text.available, <<"9", ":", "0", "0", SP, "AM">>, 1)

\* C18: every step keeps the entries of the history and their order, and
\* what it adds at the end are whole entries: a role and the full text of
\* the greeting or of the event handled.
C18_HistoryAppendOnly ==
    [][/\ Len(history') >= Len(history)
       /\ SubSeq(history', 1, Len(history)) = history
       /\ \A i \in (Len(history) + 1)..Len(history') :
              \/ history'[i] = Entry("assistant", Greeting)
              \/ history'[i] = Entry("user", event'.arg)
              \/ history'[i] = Entry("assistant", event'.arg)]_vars

C18_Witness ==
    /\ mainPc = "done"
    /\ twilioPc = "returned"
    /\ event = Ev(T_DONE, Narration \o Block(JBadTime))
    /\ history = <<Entry("assistant", Greeting), Entry("user", UserSaid),
                   Entry("assistant", Narration \o Block(JBadTime))>>

\* C19: when process() has ended the caller task is not running and the
\* engine connection is not open, and when the caller task has failed the
\* engine connection is not open.
C19_NoSubtaskAfterTermination ==
    /\ mainPc = "done" => twilioPc # "running"
    /\ mainPc = "done" => openai_ws # "open"
    /\ twilioPc = "failed" => openai_ws # "open"

\* C20: every frame sent to the caller carries the stream id bound by the
\* caller's start event.
C20_FramesCarryBoundToken ==
    \A i \in 1..Len(callerOut) : callerOut[i].streamSid # "None"

\* C21: audio is forwarded in arrival order in each direction.  The payloads
\* of the append events sent to the engine are the payloads of the caller's
\* media frames, one each and in the caller's order, and none is sent once
\* the caller task has stopped reading; a media frame goes to the caller
\* only while an audio delta is handled, at most one per delta, carrying
\* that delta's payload, before the next event is read.
C21_AudioInArrivalOrder ==
    /\ [](/\ forwarded = [k \in 1..Len(forwarded) |-> CallerFrames[k]]
          /\ (HasMedia(callerOut) =>
                 /\ event.type = T_AUDIO
                 /\ Len(callerOut) = 1
                 /\ callerOut[1].payload = event.arg))
    /\ [][twilioPc # "running" => forwarded' = forwarded]_vars

\* Two caller frames were forwarded before the stop, and the audio delta
\* handled last went to the caller.
C21_Witness ==
    /\ twilioPc = "returned"
    /\ Len(forwarded) >= 2
    /\ forwarded[2] = CallerFrames[2]
    /\ event.type = T_AUDIO
    /\ HasMedia(callerOut)

\* An error notification frame, as BusinessVoiceTestAgent.process sends one.
HasError(frames) == \E i \in 1..Len(frames) : frames[i].event = "error"

\* C22: on a fatal transport error the session sends an error notification
\* frame to the caller before it closes: a session that ended without ever
\* having an engine connection (the connect raised) has sent one.
C22_ErrorFrameOnFatalError ==
    (mainPc = "done" /\ openai_ws = "none") => HasError(callerOut)

\* C23: a collaborator failure while a caller utterance is handled never
\* aborts the turn: whenever a non-empty caller transcript is handled, the
\* handler goes on to send the instructions update and the session stays
\* open.
C23_CollaboratorFailureKeepsTurn ==
    [][(nEvents' = nEvents + 1 /\ event'.type = T_TRANSCRIPT /\ event'.arg # <<>>)
          => (mainPc' = "send_update" /\ openai_ws' = openai_ws)]_vars

\* C24: an engine event with an unrecognized tag, whatever its shape, is
\* ignored: handling it sends nothing to either peer, leaves history, store
\* and flags as they were, and does not end the session.
C24_UnrecognizedEventIgnored ==
    [][(nEvents' = nEvents + 1 /\ event'.type = T_OTHER)
          => /\ engineOut' = <<>> /\ callerOut' = <<>> /\ mutatorCalls' = <<>>
             /\ UNCHANGED <<history, bookings, audio_stopped, assistant_response>>
             /\ UNCHANGED <<mainPc, openai_ws>>]_vars

\* C25: for an assistant without a schedule generate_prompt returns a text
\* whatever the booking store and the clock hold: the hours, the date and
\* the time are "Unknown", both slot lists are rendered as the empty list
\* is ("None"), the caller's bookings are not listed, and the document
\* snippets are embedded as they were given.
C25_NoScheduleUnknownPlaceholders ==
    \A n \in 1..Len(pr_out) :
        pr_assistant = AssistantNoSchedule
        => pr_out[n].text =
              [current_date |-> "Unknown", current_time |-> <<"Unknown">>,
               start_12 |-> <<"Unknown">>, end_12 |-> <<"Unknown">>,
               booking_duration_minutes |-> 30,
               available |-> <<"None">>, booked |-> <<"None">>,
               history |-> load_memory(history),
               bookings_section |-> [text |-> "Unknown", rows |-> {}],
               rag_section |-> pr_rag]

\* The text was assembled for the assistant without a schedule, with a
\* snippet, while the store held a booking of the assistant for today.
C25_Witness ==
    /\ pr_assistant = AssistantNoSchedule
    /\ pr_rag # <<>>
    /\ \E n \in 1..Len(pr_out) :
          /\ \E r \in pr_out[n].store : r.assistant_id = ThisAssistant /\ r.date = pr_out[n].clock.date
          /\ pr_out[n].text.rag_section = pr_rag
          /\ pr_out[n].text.start_12 = <<"Unknown">>

\* The data of the block of the event handled last, and whether the event
\* is a completed utterance whose block holds the key.
BlockData == extract_booking_data(event.arg).data
BlockHas(key) == event.type = T_DONE /\ BlockData # None /\ key \in DOMAIN BlockData

\* C26: each time field of a block is accepted in either encoding, on its
\* own: a reschedule block whose old_time and new_time both parse, each in
\* one of the two encodings, is applied with the times parsed.
C26_EachTimeInEitherEncoding ==
    (/\ BlockHas("reschedule_confirmed")
     /\ DOMAIN BlockData = {"reschedule_confirmed"}
     /\ parse_time(BlockData["reschedule_confirmed"]["old_time"]) # ValueError
     /\ parse_time(BlockData["reschedule_confirmed"]["new_time"]) # ValueError)
    => mutatorCalls =
          <<Call("reschedule_booking", now.date,
                 parse_time(BlockData["reschedule_confirmed"]["old_time"]),
                 parse_time(BlockData["reschedule_confirmed"]["new_time"]), "", "")>>

\* The rows of the store at (assistant, date, time).
RowsAt(store, assistant_id, date, time) ==
    {r \in store : r.assistant_id = assistant_id /\ r.date = date /\ r.time = time}

\* C27: a booking block creates a booking for the session's assistant and
\* conversation on the block's date, or today without one, under the
\* block's name, or "Unknown" without one; a cancellation removes one
\* booking at (assistant, today, time) and a reschedule moves one from
\* (assistant, today, old_time) to (assistant, today, new_time), whatever
\* date their blocks carry; no other row is touched.
C27_ActionKeys ==
    [][(nEvents' = nEvents + 1 /\ event'.type = T_DONE /\ mutatorCalls' # <<>>)
       => LET d == extract_booking_data(event'.arg).data
              today == now.date
          IN  CASE "booking_confirmed" \in DOMAIN d ->
                     LET b == d["booking_confirmed"]
                     IN  \E r \in bookings' \ bookings :
                            /\ bookings' = bookings \cup {r}
                            /\ r.assistant_id = ThisAssistant
                            /\ r.conversation_id = ThisConversation
                            /\ r.date = IF "date" \in DOMAIN b THEN b["date"] ELSE today
                            /\ r.time = parse_time(b["time"])
                            /\ r.customer_name = IF "name" \in DOMAIN b THEN b["name"] ELSE "Unknown"
                [] "cancellation_confirmed" \in DOMAIN d ->
                     LET t == parse_time(d["cancellation_confirmed"]["time"])
                         at == RowsAt(bookings, ThisAssistant, today, t)
                     IN  IF at = {} THEN bookings' = bookings
                         ELSE \E r \in at : bookings' = bookings \ {r}
                [] OTHER ->
                     LET old == parse_time(d["reschedule_confirmed"]["old_time"])
                         new == parse_time(d["reschedule_confirmed"]["new_time"])
                         at == RowsAt(bookings, ThisAssistant, today, old)
                     IN  IF at = {} THEN bookings' = bookings
                         ELSE \E r \in at :
                                 bookings' = (bookings \ {r})
                                     \cup {[r EXCEPT !.date = today, !.time = new]}]_vars

\* Bookings were made for today and for tomorrow at 14:00, and the
\* cancellation whose block names tomorrow has removed today's.
C27_Witness ==
    /\ event = Ev(T_DONE, Narration \o Block(JCancelDated))
    /\ mutatorCalls # <<>>
    /\ RowsAt(bookings, ThisAssistant, Today, 14 * 60) = {}
    /\ RowsAt(bookings, ThisAssistant, "2025-03-11", 14 * 60) # {}
    /\ nextId = 3

\* C28: one completed utterance leads to at most one mutator call; of the
\* recognized keys its block holds, the first in the order
\* booking_confirmed, cancellation_confirmed, reschedule_confirmed is the
\* one applied; a block with no recognized key leads to no call.
C28_OneCallFirstKeyWins ==
    /\ Len(mutatorCalls) <= 1
    /\ (event.type = T_DONE /\ mutatorCalls # <<>>)
       => /\ BlockData # None
          /\ mutatorCalls[1].op =
                 CASE "booking_confirmed" \in DOMAIN BlockData -> "handle_booking"
                   [] "cancellation_confirmed" \in DOMAIN BlockData -> "cancel_booking"
                   [] "reschedule_confirmed" \in DOMAIN BlockData -> "reschedule_booking"
                   [] OTHER -> "none"
    /\ (BlockHas("booking_confirmed") /\ BlockHas("cancellation_confirmed"))
       => mutatorCalls = <<Call("handle_booking", now.date, 15 * 60, NoTime, "Alex", "")>>
    /\ (BlockHas("cancellation_confirmed") /\ BlockHas("reschedule_confirmed"))
       => mutatorCalls = <<Call("cancel_booking", now.date, 14 * 60, NoTime, "", "")>>

\* A block with a booking and a cancellation was handled after a booking at
\* the cancellation's time: the booking of the block was made and the
\* earlier one is still there.
C28_Witness ==
    /\ event = Ev(T_DONE, Narration \o Block(JBookAndCancel))
    /\ Len(mutatorCalls) = 1
    /\ RowsAt(bookings, ThisAssistant, Today, 14 * 60) # {}
    /\ RowsAt(bookings, ThisAssistant, Today, 15 * 60) # {}

\* C29: a confirmed booking ends the call: once the handler of a completed
\* utterance has committed the booking of its block, _one_ai_turn has
\* returned and the session is over.
C29_ConfirmedBookingEndsCall ==
    (/\ event.type = T_DONE
     /\ mutatorCalls # <<>>
     /\ mutatorCalls[1].op = "handle_booking")
    => mainPc = "done"

\* The opening markers of the three kinds of block.
ActionMarkers ==
    {<<"\"booking_", "confirmed\"">>, <<"\"cancellation_confirmed\"">>,
     <<"\"reschedule_confirmed\"">>}

\* C30: suppression is triggered by every kind of block: once the buffer
\* contains the opening marker of a booking, cancellation or reschedule
\* block that arrived with its brace, the flag is set.
C30_EveryBlockKindSuppresses ==
    \A marker \in ActionMarkers :
        Contains(assistant_response, <<"{">> \o marker) => audio_stopped

\* The history entries of a role.
EntriesOf(role) == Cardinality({i \in 1..Len(history) : history[i].role = role})

\* C31: each completed utterance yields exactly one history entry: in a
\* conversation that takes turns, once the greeting has been uttered, the
\* assistant entries are as many as the utterances the engine completed and
\* the user entries as many as the utterances the caller completed.
C31_OneEntryPerUtterance ==
    nEvents >= 1
    => /\ EntriesOf("assistant") = (nEvents + 1) \div 2
       /\ EntriesOf("user") = nEvents \div 2

\* The rows of a store outside the slot (assistant, date, time).
RowsOff(store, assistant_id, date, time) == store \ RowsAt(store, assistant_id, date, time)

\* C32: on every store the sessions can produce and for every slot,
\* cancel_booking and reschedule_booking on a slot without a booking return
\* None and leave the store as it is; on a slot with a booking
\* cancel_booking removes exactly one row, a row of that slot, and
\* reschedule_booking changes exactly one row, a row of that slot; no row
\* of another assistant, date or time is removed or changed.
C32_MutatorsTouchOneRowOfTheSlot ==
    \A a \in Assistants, d \in Dates, t \in Times :
        LET at == RowsAt(bookings, a, d, t)
        IN  /\ at = {} =>
                 /\ cancel_booking(bookings, a, d, t) = {bookings}
                 /\ cancel_booking_returns(bookings, a, d, t) = {None}
                 /\ \A nt \in Times :
                        /\ reschedule_booking(bookings, a, d, t, d, nt) = {bookings}
                        /\ reschedule_booking_returns(bookings, a, d, t, d, nt) = {None}
            /\ at # {} =>
                 /\ None \notin cancel_booking_returns(bookings, a, d, t)
                 /\ \A after \in cancel_booking(bookings, a, d, t) :
                        /\ after \subseteq bookings
                        /\ Cardinality(bookings \ after) = 1
                        /\ bookings \ after \subseteq at
                 /\ \A nt \in Times :
                        \A after \in reschedule_booking(bookings, a, d, t, d, nt) :
                            /\ RowsOff(bookings, a, d, t) \subseteq after
                            /\ Cardinality(at \ after) = IF nt = t THEN 0 ELSE 1
                            /\ Cardinality(after \ bookings) = IF nt = t THEN 0 ELSE 1

\* Two bookings were made and one of them was cancelled.
C32_Witness ==
    /\ nCalls = 3
    /\ nextId = 3
    /\ Cardinality(bookings) = 1

\* C33 as stated: reschedule_booking keeps the number of bookings and
\* changes only the date and time of the moved one; afterwards the old slot
\* no longer holds that booking and the new slot does.
C33_RescheduleMovesOneBooking ==
    \A a \in Assistants, d \in Dates, t \in Times, nd \in Dates, nt \in Times :
        \A moved \in reschedule_booking_returns(bookings, a, d, t, nd, nt) :
            moved # None =>
                \E after \in reschedule_booking(bookings, a, d, t, nd, nt) :
                    /\ Cardinality(after) = Cardinality(bookings)
                    /\ \E r \in RowsAt(bookings, a, d, t) :
                          /\ moved = [r EXCEPT !.date = nd, !.time = nt]
                          /\ after \ {moved} = bookings \ {r}
                    /\ moved \in RowsAt(after, a, nd, nt)
                    /\ \A r \in RowsAt(after, a, d, t) : r.id # moved.id

\* C33, for a new slot that differs from the old one; a reschedule to the
\* slot the booking is in leaves the store as it is.
C33_RescheduleMovesToOtherSlot ==
    \A a \in Assistants, d \in Dates, t \in Times, nd \in Dates, nt \in Times :
        \A moved \in reschedule_booking_returns(bookings, a, d, t, nd, nt) :
            moved # None =>
                \E after \in reschedule_booking(bookings, a, d, t, nd, nt) :
                    /\ Cardinality(after) = Cardinality(bookings)
                    /\ \E r \in RowsAt(bookings, a, d, t) :
                          /\ moved = [r EXCEPT !.date = nd, !.time = nt]
                          /\ after \ {moved} = bookings \ {r}
                    /\ moved \in RowsAt(after, a, nd, nt)
                    /\ IF <<nd, nt>> = <<d, t>>
                       THEN after = bookings
                       ELSE \A r \in RowsAt(after, a, d, t) : r.id # moved.id

\* A booking made at 14:00 was moved to 15:00 and keeps its other fields.
C33_Witness ==
    /\ nCalls = 2
    /\ nextId = 2
    /\ \E r \in bookings :
          /\ r.id = 1 /\ r.time = 15 * 60
          /\ r.customer_name = "Alex" /\ r.details = "checkup"
    /\ \A r \in bookings : r.time # 14 * 60

\* The minutes opening + k * duration (k = 0, 1, ...) that are before the
\* closing time.
SlotStarts(args) ==
    LET opening == split_hm(args.start_time_24)
        closing == split_hm(args.end_time_24)
    IN  {m \in opening..(closing - 1) :
            \E k \in 0..(closing - opening) : m = opening + k * args.duration_minutes}

\* The day of the call is enabled in available_days.
DayEnabled(args) == Get(json_loads(args.available_days), weekday(args.for_date), FALSE)

\* C34: the list of generate_time_slots holds, on an enabled weekday, the
\* labels of the starts opening + k * duration before the closing time, in
\* increasing order and each once, and nothing when the weekday is disabled
\* or missing or the opening is not before the closing: while it is built
\* it is a part of that list, and when the function returns it is all of it.
C34_ExactSlots ==
    LET opening == split_hm(gs_args.start_time_24)
        expected == IF DayEnabled(gs_args) THEN SlotStarts(gs_args) ELSE {}
    IN  /\ Len(gs_slots) <= Cardinality(expected)
        /\ \A k \in 1..Len(gs_slots) :
               /\ opening + (k - 1) * gs_args.duration_minutes \in expected
               /\ gs_slots[k] = pretty(opening + (k - 1) * gs_args.duration_minutes)
        /\ \A j \in 1..Len(gs_slots), k \in 1..Len(gs_slots) :
               j < k => gs_slots[j] # gs_slots[k]
        /\ gs_pc = "done" => Len(gs_slots) = Cardinality(expected)

\* C35: generate_time_slots terminates for every configuration the routes
\* can store: every iteration of its loop moves current towards the cutoff.
C35_SlotLoopTerminates ==
    [][(gs_pc = "loop" /\ Len(gs_slots') = Len(gs_slots) + 1) => gs_current' > gs_current]_vars

\* C36: BusinessVoiceTestAgent.process terminates once the engine
\* connection has closed: the loop exits, the audio task is cancelled or
\* has returned, and the engine connection is closed.
C36_AgentTerminatesAfterClose ==
    (agent.openai_ws = "closed")
        ~> (agent.pc = "done" /\ agent.audio_task # "running" /\ agent.openai_ws = "closed")

\* C37: the number of assistants of a user with an active subscription
\* never exceeds the user's max_agents, however register requests interleave.
C37_WithinPlanLimit ==
    \A u \in UserIds :
        users[u].subscription_status = "active"
        => Cardinality(assistants_of(assistants, u)) <= users[u].max_agents

\* C38: whenever a user's subscription_status is "active", none of the
\* user's assistants is left "suspended".
C38_ActiveHasNoSuspended ==
    \A i \in DOMAIN assistants :
        users[assistants[i].user_id].subscription_status = "active"
        => assistants[i].status # "suspended"

\* C39: a delivery without a configured secret, with an invalid payload or
\* with a failing signature gets an error status and leaves users and
\* assistants as they are; a verified event of an unhandled type changes
\* nothing and gets success.
C39_OnlyVerifiedEventsApply ==
    \A d \in Deliveries :
        LET out == webhook(users, assistants, d)
        IN  /\ (~d.secret \/ d.payload # "json" \/ d.signature # "good")
                => /\ out.code \in {400, 500}
                   /\ out.users = users
                   /\ out.assistants = assistants
            /\ (d.secret /\ d.payload = "json" /\ d.signature = "good"
                    /\ d.event.type = "charge.refunded")
                => /\ out.code = 200
                   /\ out.users = users
                   /\ out.assistants = assistants

\* A delivery was rejected while a user has a paid plan and an assistant.
C39_Witness ==
    /\ hook = 400
    /\ \E i \in DOMAIN assistants :
          /\ users[assistants[i].user_id].plan = "pro"
          /\ assistants[i].status = "suspended"


====
